---- MODULE Spec2Model ----
(***************************************************************************)
(* PlantPixel: growth scoring (services/growth_analysis.py), the /analyze  *)
(* handler's inline scoring (routes/analysis_routes.py), the metric        *)
(* extraction pipeline and its timing wrapper (utils/performance_monitor)  *)
(* and the metric functions (utils/comparison_metrics.py).                 *)
(*                                                                         *)
(* Numbers.  Python floats are modelled as exact fixed-point numbers: an   *)
(* integer n stands for the real n / Q.  Q is a multiple of every divisor  *)
(* the scoring code divides by, so the scorer's divisions are exact.       *)
(***************************************************************************)
EXTENDS Integers, Sequences, FiniteSets, TLC

VARIABLES
    pc,              \* position of the modelled call
    before_metrics,  \* argument of compare_and_score_growth / extract result
    after_metrics,   \* argument of compare_and_score_growth / extract result
    ret,             \* what compare_and_score_growth returned
    resp,            \* the scoring part of the /analyze response
    metrics,         \* PerformanceMonitor.metrics (in-memory list)
    logFile,         \* contents of performance_logs.json
    mask,            \* mask argument of the metric functions
    inImage,         \* image argument of the metric functions
    weather,         \* weather_data argument of estimate_sunlight_proxy
    wsRaises,        \* whether cv2.watershed raises cv2.error in this call
    mres,            \* what the metric functions returned so far
    image,           \* argument of extract_metrics
    fault,           \* the step of extract_metrics at which a call raises
    ioOk,            \* whether performance_logs.json can be read and written
    pre,             \* extract_metrics: preprocessed
    loc,             \* extract_metrics: the metrics computed so far
    exc,             \* the step whose exception extract_metrics caught
    result,          \* timing_decorator wrapper: result
    out,             \* what the caller of extract_metrics observes
    bgr_img,         \* argument of get_dynamic_green_bounds
    gfault,          \* the step of get_dynamic_green_bounds that raises
    gloc,            \* get_dynamic_green_bounds: its locals
    bounds,          \* what get_dynamic_green_bounds returned
    calls,           \* the calls of extract_metrics made on one image
    job,             \* what each thread was asked to run
    tpc,             \* each thread's position in the timing wrapper
    data,            \* log_metric: each thread's local data
    tres,            \* what each thread's call returned
    given_center,    \* the centre the bounds calculation is given
    margins,         \* bounds calculation: its margins and its result
    prev_call,       \* the centre and the margins of the call before
    size,            \* size argument of preprocess_image
    pcalls,          \* the calls of preprocess_image made with that size
    wfunc,           \* timing_decorator: how the wrapped function ends
    wloc,            \* timing_decorator wrapper: result, success, error
    wout,            \* what the caller of the wrapper observes
    analysis_results, \* analysis_routes.analysis_results
    uploaded_images, \* analysis_routes.uploaded_images
    issued,          \* the number of uuid4() identifiers handed out
    responses        \* the requests answered so far and their responses

scoreVars == <<before_metrics, after_metrics, ret, resp>>

logVars == <<metrics, logFile>>

metricVars == <<mask, inImage, weather, wsRaises, mres>>

extractVars == <<image, fault, ioOk, pre, loc, exc, result, out>>

estimatorVars == <<bgr_img, gfault, gloc, bounds>>

repeatVars == <<calls>>

threadVars == <<job, tpc, data, tres>>

marginVars == <<given_center, margins, prev_call>>

preprocVars == <<size, pcalls>>

wrapperVars == <<wfunc, wloc, wout>>

routeVars == <<analysis_results, uploaded_images, issued, responses>>

otherVars == <<marginVars, preprocVars, wrapperVars, routeVars>>

vars == <<pc, scoreVars, logVars, metricVars, extractVars, estimatorVars,
          repeatVars, threadVars, otherVars>>

(***************************************************************************)
(* Bounds of the model.                                                    *)
(***************************************************************************)
\* The largest value of a metric in the after set.
MaxVal == 3

\* Values of a metric in the before set and in the after set.  With these a
\* delta can be -100 (1 -> 0), -50 (2 -> 1), 0, +50 (2 -> 3), beyond +100
\* (1 -> 3), and 0 or +100 by the rule for a metric that starts at 0.
BeforeVals == {0, 1, 2}

AfterVals == {0, 1, MaxVal}

(***************************************************************************)
(* Fixed-point arithmetic.                                                 *)
(***************************************************************************)
\* Product of the numbers in S.
RECURSIVE SetProd(_)
SetProd(S) ==
    IF S = {} THEN 1
    ELSE LET x == CHOOSE y \in S : TRUE
         IN  x * SetProd(S \ {x})

\* One, as a fixed-point number: 100 (weights are hundredths) times 100
\* (normalized deltas down to hundredths of a percent) times a common
\* multiple of every before value the code divides by.
Q == 100 * 100 * SetProd(BeforeVals \ {0})

Abs(x) == IF x < 0 THEN -x ELSE x

Min2(a, b) == IF a <= b THEN a ELSE b

Max2(a, b) == IF a >= b THEN a ELSE b

\* x / y for integers x, y > 0 ... rounded to the nearest integer, ties to
\* even (Python's round()).
RoundDiv(x, y) ==
    LET q == x \div y
        r == x % y
    IN  IF 2 * r < y THEN q
        ELSE IF 2 * r > y THEN q + 1
        ELSE IF q % 2 = 0 THEN q ELSE q + 1

(***************************************************************************)
(* services/growth_analysis.py                                             *)
(***************************************************************************)
Keys == {"bounding_box_area", "green_pixel_ratio", "leaf_count",
         "color_health_index", "sunlight_proxy"}

\* Weights in hundredths.
STANDARD_WEIGHTS ==
    [k \in Keys |->
        CASE k = "bounding_box_area"  -> 25
          [] k = "green_pixel_ratio"  -> 25
          [] k = "leaf_count"         -> 20
          [] k = "color_health_index" -> 20
          [] k = "sunlight_proxy"     -> 10]

\* Sum of f[k] over the keys in S.
RECURSIVE SumOver(_, _)
SumOver(f, S) ==
    IF S = {} THEN 0
    ELSE LET k == CHOOSE x \in S : TRUE
         IN  f[k] + SumOver(f, S \ {k})

\* ScorerDelta with the rule of a metric that starts at 0 lost: delta 0.
ScorerDelta_NoCredit(prev_val, curr_val) ==
    IF prev_val > 0
    THEN (((curr_val - prev_val) * Q) \div prev_val) * 100
    ELSE 0

\* ScorerDelta without the test curr_val == 0: full credit from 0 always.
ScorerDelta_AlwaysCredit(prev_val, curr_val) ==
    IF prev_val > 0
    THEN (((curr_val - prev_val) * Q) \div prev_val) * 100
    ELSE 100 * Q

\* ScorerDelta with the test curr_val == 0 inverted.
ScorerDelta_Inverted(prev_val, curr_val) ==
    IF prev_val > 0
    THEN (((curr_val - prev_val) * Q) \div prev_val) * 100
    ELSE IF curr_val = 0 THEN 100 * Q ELSE 0

\* delta of one metric, in percent (fixed point): lines 85-88.
ScorerDelta(prev_val, curr_val) ==
    IF prev_val > 0
    THEN (((curr_val - prev_val) * Q) \div prev_val) * 100
    ELSE IF curr_val = 0 THEN 0 ELSE 100 * Q

\* Normalize keeping only the sign of the delta.
Normalize_SignOnly(delta) ==
    IF delta > 0 THEN Q ELSE IF delta < 0 THEN -Q ELSE 0

\* Normalize without the clamp to [-1, 1].
Normalize_NoClamp(delta) == delta \div 100

\* normalized_delta = max(min(delta / 100, 1.0), -1.0): line 93.
Normalize(delta) == Max2(Min2(delta \div 100, Q), -Q)

\* final_score = max(0, min(100, (growth_score + 1) * 50)): line 97.
FinalScore(growth_score) == Max2(0, Min2(100 * Q, (growth_score + Q) * 50))

\* The weighted keys present in both metric sets: line 80.
Present(b, a) == {k \in Keys : k \in DOMAIN b /\ k \in DOMAIN a}

\* compare_and_score_growth with neither the delta nor the score clamped.
compare_and_score_growth_NoClamp(b, a) ==
    LET present == Present(b, a)
        growth_score ==
            SumOver([k \in present |->
                        (STANDARD_WEIGHTS[k]
                         * (ScorerDelta(b[k], a[k]) \div 100)) \div 100],
                    present)
    IN  [score  |-> (growth_score + Q) * 50,
         deltas |-> [k \in present |-> ScorerDelta(b[k], a[k])]]

\* compare_and_score_growth(before_metrics, after_metrics), lines 76-99: the
\* loop over STANDARD_WEIGHTS and the final clamp.  Returns [score, deltas].
compare_and_score_growth(b, a) ==
    LET present == Present(b, a)
        growth_score ==
            SumOver([k \in present |->
                        (STANDARD_WEIGHTS[k]
                         * Normalize(ScorerDelta(b[k], a[k]))) \div 100],
                    present)
    IN  [score  |-> FinalScore(growth_score),
         deltas |-> [k \in present |-> ScorerDelta(b[k], a[k])]]

(***************************************************************************)
(* routes/analysis_routes.py: the scoring part of analyze_growth           *)
(***************************************************************************)
\* lines 104-107: the handler's own delta rule.
HandlerDelta(prev_val, curr_val) ==
    IF prev_val > 0
    THEN (((curr_val - prev_val) * Q) \div prev_val) * 100
    ELSE 0

\* Suggestion with strict comparisons.
Suggestion_Strict(final_score) ==
    IF final_score > 80 * Q THEN "excellent"
    ELSE IF final_score > 60 * Q THEN "good"
    ELSE IF final_score > 40 * Q THEN "moderate"
    ELSE "limited"

\* lines 119-126: the suggestion tier of a final score.
Suggestion(final_score) ==
    IF final_score >= 80 * Q THEN "excellent"
    ELSE IF final_score >= 60 * Q THEN "good"
    ELSE IF final_score >= 40 * Q THEN "moderate"
    ELSE "limited"

\* lines 85-132.  growth_score is round(final_score, 1), in tenths;
\* delta_metrics holds round(delta, 2), in hundredths.
analyze_growth_scoring(b, a) ==
    LET present == {k \in DOMAIN b : k \in DOMAIN a /\ k \in Keys}
        growth_score ==
            SumOver([k \in present |->
                        (STANDARD_WEIGHTS[k]
                         * Normalize(HandlerDelta(b[k], a[k]))) \div 100],
                    present)
        final_score  == FinalScore(growth_score)
    IN  [growth_score  |-> RoundDiv(final_score * 10, Q),
         final_score   |-> final_score,
         delta_metrics |->
             [k \in present |-> RoundDiv(HandlerDelta(b[k], a[k]) * 100, Q)],
         suggestion    |-> Suggestion(final_score)]

(***************************************************************************)
(* Images and masks.                                                       *)
(*                                                                         *)
(* A mask is modelled by its shape and its connected regions, an image by  *)
(* the same regions with their colour: the thresholds of the code are in   *)
(* pixels of the 300 x 300 working image (50, 100, 90000), so regions      *)
(* carry their real pixel counts.  A region has the pixel count of its     *)
(* contour (area), its bounding rectangle (w, h), the lobes the distance   *)
(* transform finds in it (peak depth, and the area and perimeter of the    *)
(* watershed region grown from the lobe), the colour of its pixels after   *)
(* cv2.cvtColor (hue 0..179, saturation, value and Lab a 0..255), and the  *)
(* outcome of the three segmentation tests of preprocess_image on it.      *)
(***************************************************************************)
None == [kind |-> "none"]

NoResult == [none |-> TRUE]

\* The empty dictionary.
EmptyMap == [k \in {} |-> 0]

IsNone(x) == x.kind = "none"

Mask(rows, cols, regions) ==
    [kind |-> "mask", rows |-> rows, cols |-> cols, regions |-> regions]

\* One, as a fixed-point number, for the metrics in [0,1]: three decimals,
\* the precision of round(chi, 3).
F == 10 * 10 * 10

Clip(x, lo, hi) == Max2(lo, Min2(hi, x))

\* Largest r with r * r <= n, searched in lo..hi.
RECURSIVE IsqrtIn(_, _, _)
IsqrtIn(n, lo, hi) ==
    IF lo >= hi THEN lo
    ELSE LET mid == (lo + hi + 1) \div 2
         IN  IF mid * mid <= n THEN IsqrtIn(n, mid, hi)
             ELSE IsqrtIn(n, lo, mid - 1)

Isqrt(n) == IsqrtIn(n, 0, Min2(n, 46340))

\* Sum of f[i] over i in 1..n.
RECURSIVE SumSeq(_, _)
SumSeq(f, n) == IF n = 0 THEN 0 ELSE f[n] + SumSeq(f, n - 1)

\* np.sum(mask) == 0: no pixel of the mask is set.
MaskSumZero(m) == m.regions = <<>>

\* np.count_nonzero(mask).
CountNonZero(m) ==
    SumSeq([i \in 1..Len(m.regions) |-> m.regions[i].area], Len(m.regions))

\* cv2.morphologyEx(mask, MORPH_OPEN, k x k ellipse, iterations): erosion
\* takes (k - 1) / 2 pixels per iteration from every side of a region, so a
\* region no wider or no higher than (k - 1) * iterations disappears; the
\* dilation that follows restores the regions that are left.
MorphOpen(m, k, iterations) ==
    [m EXCEPT !.regions =
        SelectSeq(m.regions,
                  LAMBDA r : Min2(r.w, r.h) > (k - 1) * iterations)]

\* cv2.morphologyEx(mask, MORPH_CLOSE, ...): fills gaps inside regions; it
\* removes no region.
MorphClose(m, k, iterations) == m

\* The first element of s with the largest contour area: max(s, key=...).
RECURSIVE LargestFrom(_, _, _)
LargestFrom(s, i, best) ==
    IF i > Len(s) THEN best
    ELSE LargestFrom(s, i + 1, IF s[i].area > best.area THEN s[i] ELSE best)

(***************************************************************************)
(* utils/comparison_metrics.py                                             *)
(***************************************************************************)
\* calculate_bounding_box_area without the aspect-ratio test of lines 40-42.
calculate_bounding_box_area_NoAspect(m) ==
    IF IsNone(m) \/ MaskSumZero(m) THEN [area |-> 0, coords |-> None]
    ELSE
    LET contours == MorphClose(MorphOpen(m, 3, 1), 3, 2).regions
        valid_contours == SelectSeq(contours, LAMBDA c : ~(c.area < 50))
    IN  IF valid_contours = <<>> THEN [area |-> 0, coords |-> None]
        ELSE LET largest_contour ==
                     LargestFrom(valid_contours, 2, valid_contours[1])
             IN  [area |-> largest_contour.w * largest_contour.h,
                  coords |-> [kind |-> "rect", w |-> largest_contour.w,
                              h |-> largest_contour.h]]

\* lines 5-56.  Returns [area, coords].
calculate_bounding_box_area(m) ==
    IF IsNone(m) \/ MaskSumZero(m) THEN [area |-> 0, coords |-> None]
    ELSE
    LET cleaned_mask == MorphClose(MorphOpen(m, 3, 1), 3, 2)
        contours == cleaned_mask.regions
        valid_contours ==
            SelectSeq(contours,
                      LAMBDA c : /\ ~(c.area < 50)
                                 /\ ~(c.w > 10 * c.h \/ 10 * c.w < c.h))
    IN  IF contours = <<>> THEN [area |-> 0, coords |-> None]
        ELSE IF valid_contours = <<>> THEN [area |-> 0, coords |-> None]
        ELSE LET largest_contour ==
                     LargestFrom(valid_contours, 2, valid_contours[1])
             IN  [area |-> largest_contour.w * largest_contour.h,
                  coords |-> [kind |-> "rect", w |-> largest_contour.w,
                              h |-> largest_contour.h]]

\* calculate_green_pixel_count dividing by the rows, not by rows * cols.
calculate_green_pixel_count_RowsOnly(m) ==
    IF IsNone(m) \/ m.rows * m.cols = 0 THEN [count |-> 0, ratio |-> 0]
    ELSE
    LET cleaned_mask == MorphClose(MorphOpen(m, 3, 1), 3, 2)
        green_pixel_count == CountNonZero(cleaned_mask)
    IN  [count |-> green_pixel_count,
         ratio |-> (green_pixel_count * F) \div cleaned_mask.rows]

\* lines 58-87.  Returns [count, ratio], the ratio in fixed point.
calculate_green_pixel_count(m) ==
    IF IsNone(m) \/ m.rows * m.cols = 0 THEN [count |-> 0, ratio |-> 0]
    ELSE
    LET cleaned_mask == MorphClose(MorphOpen(m, 3, 1), 3, 2)
        green_pixel_count == CountNonZero(cleaned_mask)
        total_pixel_count == cleaned_mask.rows * cleaned_mask.cols
    IN  [count |-> green_pixel_count,
         ratio |-> (green_pixel_count * F) \div total_pixel_count]

\* All lobes of the regions of a mask.
RECURSIVE LobesOf(_, _)
LobesOf(regions, i) ==
    IF i > Len(regions) THEN <<>>
    ELSE regions[i].lobes \o LobesOf(regions, i + 1)

RECURSIVE MaxDepth(_, _)
MaxDepth(lobes, i) ==
    IF i > Len(lobes) THEN 0
    ELSE Max2(lobes[i].depth, MaxDepth(lobes, i + 1))

\* estimate_leaf_count counting every label, whatever its area and shape.
estimate_leaf_count_NoShape(m, min_leaf_area, ws_raises) ==
    IF IsNone(m) \/ MaskSumZero(m) THEN 0
    ELSE
    LET lobes == LobesOf(MorphClose(MorphOpen(m, 3, 2), 5, 1).regions, 1)
        max_dist == MaxDepth(lobes, 1)
        threshold_factor == Min2((6 * F) \div 10,
                                 Max2((3 * F) \div 10, (max_dist * F) \div 50))
    IN  IF ws_raises THEN 0
        ELSE Len(SelectSeq(lobes,
                     LAMBDA l : l.depth * F > threshold_factor * max_dist))

\* lines 89-181.  Returns the leaf count.  ws_raises: cv2.watershed
\* raises cv2.error in this call.
estimate_leaf_count(m, min_leaf_area, ws_raises) ==
    IF IsNone(m) \/ MaskSumZero(m) THEN 0
    ELSE
    LET cleaned_mask == MorphClose(MorphOpen(m, 3, 2), 5, 1)
        lobes == LobesOf(cleaned_mask.regions, 1)
        \* dist_transform.max()
        max_dist == MaxDepth(lobes, 1)
        \* threshold_factor = min(0.6, max(0.3, max_dist / 50)), fixed point
        threshold_factor == Min2((6 * F) \div 10,
                                 Max2((3 * F) \div 10, (max_dist * F) \div 50))
        \* sure_fg: dist_transform > threshold_factor * max_dist
        seeds == SelectSeq(lobes,
                     LAMBDA l : l.depth * F > threshold_factor * max_dist)
        \* area >= min_leaf_area, perimeter > 0 and
        \* 4 * pi * area / perimeter^2 > 0.1, with pi = 355 / 113
        leaf_regions ==
            SelectSeq(seeds,
                LAMBDA l : /\ l.area >= min_leaf_area
                           /\ l.perim > 0
                           /\ 4 * 355 * l.area * 10 > 113 * l.perim * l.perim)
    IN  IF ~(max_dist > 0) THEN 0
        ELSE IF ws_raises THEN 0
        ELSE Len(leaf_regions)

\* The pixels under a mask, hsv[:, :, c][mask > 0], as one entry per region:
\* n pixels of colour px.
PlantPixels(m) ==
    [i \in 1..Len(m.regions) |->
        [n |-> m.regions[i].area, px |-> m.regions[i].px]]

PixelCount(pop) == SumSeq([i \in 1..Len(pop) |-> pop[i].n], Len(pop))

\* np.mean of channel c, in fixed point.
MeanF(pop, c) ==
    LET total == SumSeq([i \in 1..Len(pop) |-> pop[i].n * pop[i].px[c]],
                        Len(pop))
        n     == PixelCount(pop)
    IN  (total \div n) * F + ((total % n) * F) \div n

\* np.std of channel c, in fixed point: the root of the mean squared
\* deviation from the mean (the mean taken to the nearest integer).
StdF(pop, c) ==
    LET total == SumSeq([i \in 1..Len(pop) |-> pop[i].n * pop[i].px[c]],
                        Len(pop))
        n     == PixelCount(pop)
        mean  == RoundDiv(total, n)
        sq    == SumSeq([i \in 1..Len(pop) |->
                            pop[i].n * (pop[i].px[c] - mean)
                                     * (pop[i].px[c] - mean)], Len(pop))
    IN  Isqrt((sq \div n) * 100 * 100) * (F \div 100)

\* lines 183-252.  Returns [chi, avg_hue, avg_sat]: chi in fixed point
\* (three decimals, as rounded), the averages in hundredths.
calculate_color_health_index(masked_image, m) ==
    IF IsNone(masked_image) \/ IsNone(m) \/ MaskSumZero(m)
    THEN [chi |-> 0, avg_hue |-> 0, avg_sat |-> 0]
    ELSE
    LET pop == PlantPixels(m)
        avg_hue == MeanF(pop, "h")
        avg_sat == MeanF(pop, "s")
        avg_val == MeanF(pop, "v")
        avg_a   == MeanF(pop, "a")
        hue_deviation == Abs(avg_hue - 60 * F)
        hue_score == Max2(0, F - hue_deviation \div 40)
        sat_score == Clip(avg_sat \div 255, 0, F)
        brightness_deviation == Abs(avg_val - 128 * F)
        brightness_score == Max2(0, F - brightness_deviation \div 128)
        green_intensity == (128 * F - avg_a) \div 128
        green_score == Clip(green_intensity, 0, F)
        hue_consistency == Max2(0, F - StdF(pop, "h") \div 50)
        sat_consistency == Max2(0, F - StdF(pop, "s") \div 100)
        chi == (25 * hue_score + 20 * sat_score + 15 * brightness_score
                + 20 * green_score + 10 * hue_consistency
                + 10 * sat_consistency) \div 100
    IN  IF PixelCount(pop) = 0
        THEN [chi |-> 0, avg_hue |-> 0, avg_sat |-> 0]
        ELSE [chi |-> Clip(chi, 0, F),
              avg_hue |-> RoundDiv(avg_hue * 100, F),
              avg_sat |-> RoundDiv(avg_sat * 100, F)]

\* np.sum(plant_values < pct / 100 * 255): the pixels darker than a threshold.
CountBelow(pop, pct) ==
    SumSeq([i \in 1..Len(pop) |->
               IF 100 * pop[i].px.v < pct * 255 THEN pop[i].n ELSE 0], Len(pop))

\* np.sum(plant_values > pct / 100 * 255): the pixels brighter than a threshold.
CountAbove(pop, pct) ==
    SumSeq([i \in 1..Len(pop) |->
               IF 100 * pop[i].px.v > pct * 255 THEN pop[i].n ELSE 0], Len(pop))

\* x ** 0.8 for x = pct / 100 in [0,1], in fixed point: the curve at every
\* tenth, linear in between.
Pow08(pct) ==
    LET tab == <<0, 158, 276, 382, 480, 574, 665, 752, 837, 919, 1000>>
        i   == pct \div 10
        lo  == tab[i + 1]
        hi  == IF i >= 10 THEN lo ELSE tab[i + 2]
    IN  ((lo + ((hi - lo) * (pct % 10)) \div 10) * F) \div 1000

\* weather_data.get(key, default).
DictGet(d, key, default) == IF key \in DOMAIN d THEN d[key] ELSE default

\* The modifier decided by the last list that matches, not the first.
WeatherModifier_LastMatch(description) ==
    IF description \cap {"rain", "storm", "drizzle"} # {}
    THEN -((25 * F) \div 100)
    ELSE IF description \cap {"overcast", "cloudy"} # {} THEN -((15 * F) \div 100)
    ELSE IF description \cap {"scattered", "broken"} # {} THEN -((5 * F) \div 100)
    ELSE IF description \cap {"partly", "few clouds"} # {} THEN (5 * F) \div 100
    ELSE IF description \cap {"clear", "sunny"} # {} THEN (15 * F) \div 100
    ELSE 0

\* lines 336-349: the modifier of a description, in fixed point.  A
\* description is the set of the terms of the code it contains.
WeatherModifier(description) ==
    IF description \cap {"clear", "sunny"} # {} THEN (15 * F) \div 100
    ELSE IF description \cap {"partly", "few clouds"} # {} THEN (5 * F) \div 100
    ELSE IF description \cap {"scattered", "broken"} # {} THEN -((5 * F) \div 100)
    ELSE IF description \cap {"overcast", "cloudy"} # {} THEN -((15 * F) \div 100)
    ELSE IF description \cap {"rain", "storm", "drizzle"} # {}
         THEN -((25 * F) \div 100)
    ELSE 0

\* lines 272-379: the score of a mask with pixels set.
SunlightOfPlant(m, weather_data, alpha) ==
    LET pop == PlantPixels(m)
        n   == PixelCount(pop)
        normalized_brightness == MeanF(pop, "v") \div 255
        brightness_uniformity == Max2(0, F - StdF(pop, "v") \div 128)
        \* plant_values < 0.15 * 255, 0.25 * 255, 0.35 * 255
        Shadow(pct) ==
            F - (CountBelow(pop, pct) * F) \div n
        shadow_score == (50 * Shadow(15) + 30 * Shadow(25) + 20 * Shadow(35))
                            \div 100
        saturation_score == Clip(MeanF(pop, "s") \div 255, 0, F)
        \* plant_values > 0.9 * 255
        highlight_ratio ==
            (CountAbove(pop, 90) * F) \div n
        highlight_penalty == Min2((2 * F) \div 10, highlight_ratio * 2)
        image_brightness_score ==
            Clip((40 * normalized_brightness + 30 * shadow_score
                  + 20 * brightness_uniformity + 10 * saturation_score)
                     \div 100 - highlight_penalty, 0, F)
        cloudiness  == DictGet(weather_data, "clouds", 50)
        uv_index    == DictGet(weather_data, "uvi", 5)
        description == DictGet(weather_data, "description", {})
        cloud_factor == Pow08(100 - cloudiness)
        uv_factor == Min2((uv_index * F) \div 10, F)
        weather_modifier == WeatherModifier(description)
        weather_score ==
            Clip((60 * cloud_factor + 40 * uv_factor) \div 100
                     + weather_modifier, 0, F)
        hybrid_score == (alpha * image_brightness_score
                         + (100 - alpha) * weather_score) \div 100
    IN  IF n = 0
        THEN [score |-> 0,
              debug |-> [error |-> "Empty plant region in mask."]]
        ELSE [score |-> Clip(hybrid_score, 0, F),
              debug |-> [image_brightness_score |-> image_brightness_score,
                         weather_score |-> weather_score,
                         weather_modifier |-> weather_modifier,
                         cloud_factor |-> cloud_factor,
                         uv_factor |-> uv_factor]]

\* estimate_sunlight_proxy whose first guard returns no error marker.
estimate_sunlight_proxy_NoMarker(hsv_image, m, weather_data, alpha) ==
    IF IsNone(hsv_image) \/ IsNone(m) \/ MaskSumZero(m)
    THEN [score |-> 0, debug |-> EmptyMap]
    ELSE SunlightOfPlant(m, weather_data, alpha)

\* lines 254-379.  Returns [score, debug]; alpha in hundredths.
estimate_sunlight_proxy(hsv_image, m, weather_data, alpha) ==
    IF IsNone(hsv_image) \/ IsNone(m) \/ MaskSumZero(m)
    THEN [score |-> 0, debug |-> [error |-> "Invalid input data"]]
    ELSE SunlightOfPlant(m, weather_data, alpha)

(***************************************************************************)
(* core/Preprocessing/dynamicThresholding.py                               *)
(*                                                                         *)
(* A pixel population is a sequence of classes [n, px]: n pixels of the    *)
(* HSV colour px = [h, s, v].  The population of an image is the content   *)
(* of hsv_clahe (lines 69-78: resize to 300 x 300, filters, CLAHE).        *)
(* Centre coordinates are floats, kept in tenths: T stands for 1.0.        *)
(***************************************************************************)
\* One unit of a centre coordinate (line 126 blends with 0.7 and 0.3).
T == 10

\* line 65: the pair returned for a None or zero-size image.
EmptyInputBounds == [lower |-> <<25, 40, 40>>, upper |-> <<90, 255, 255>>]

\* lines 135 and 163: the pair returned when nothing green is found and
\* when a step raises.
StaticBounds == [lower |-> <<30, 40, 40>>, upper |-> <<85, 255, 255>>]

\* len(pixels) of a population.
PopSize(pop) == SumSeq([i \in 1..Len(pop) |-> pop[i].n], Len(pop))

\* The brightness filter left out: every pixel is kept.
BrightPixels_NoFilter(pop) == pop

\* lines 85-87: keep the pixels with V > 30 when more than 100 of them
\* exist.
BrightPixels(pop) ==
    LET bright == SelectSeq(pop, LAMBDA c : c.px.v > 30)
    IN  IF PopSize(bright) > 100 THEN bright ELSE pop

\* lines 90-92, np.random.choice(len(pixels), 10000, replace=False): the
\* sample that draws from the classes of S only.  Every class of S gives one
\* pixel, and the rest is taken from the classes of S in their order.
RECURSIVE FillSample(_, _, _, _)
FillSample(pop, S, i, left) ==
    IF i > Len(pop) THEN <<>>
    ELSE LET take == IF i \in S THEN 1 + Min2(pop[i].n - 1, left) ELSE 0
         IN  <<[n |-> take, px |-> pop[i].px]>>
                 \o FillSample(pop, S, i + 1,
                               IF i \in S THEN left - (take - 1) ELSE left)

\* The samples np.random.choice can draw from pop: one for every set of
\* classes that holds 10000 pixels or more.  A population of at most 10000
\* pixels is not sampled.
Samples(pop) ==
    IF PopSize(pop) > 10000
    THEN {SelectSeq(FillSample(pop, S, 1, 10000 - Cardinality(S)),
                    LAMBDA c : c.n > 0) :
             S \in {X \in SUBSET (1..Len(pop)) :
                       /\ X # {}
                       /\ PopSize([i \in 1..Len(pop) |->
                              IF i \in X THEN pop[i]
                              ELSE [n |-> 0, px |-> pop[i].px]]) >= 10000}}
    ELSE {pop}

\* lines 95-97, KMeans(n_clusters = k, random_state = 42) on a sample of at
\* most k colours: the centres are the colours of the sample, in the order
\* of their classes.
KMeansCenters(sample) ==
    [i \in 1..Len(sample) |->
        [h |-> sample[i].px.h * T, s |-> sample[i].px.s * T,
         v |-> sample[i].px.v * T]]

\* lines 106-110: the confidence of a centre, in tenths; 0 when the centre
\* is not greenish.
Confidence(center) ==
    IF /\ 40 * T <= center.h /\ center.h <= 80 * T
       /\ center.s >= 30 * T /\ center.v >= 40 * T THEN 10
    ELSE IF /\ 25 * T <= center.h /\ center.h <= 95 * T
            /\ center.s >= 20 * T /\ center.v >= 30 * T THEN 6
    ELSE 0

\* lines 101-110.
GreenishClusters(centers) ==
    LET tagged == [i \in 1..Len(centers) |->
                      [center |-> centers[i],
                       confidence |-> Confidence(centers[i])]]
    IN  SelectSeq(tagged, LAMBDA c : c.confidence > 0)

\* lines 29-37: the hue histogram of the meaningful pixels (S > 20 and
\* V > 30), or of all pixels when none is meaningful.
HueHistogram(pop, hue) ==
    LET meaningful == SelectSeq(pop, LAMBDA c : c.px.s > 20 /\ c.px.v > 30)
        counted == IF PopSize(meaningful) > 0 THEN meaningful ELSE pop
    IN  PopSize(SelectSeq(counted, LAMBDA c : c.px.h = hue))

\* The hues of H from the strongest to the weakest bin of the histogram;
\* of two equal bins the higher hue comes first (argsort, reversed).
RECURSIVE ByStrength(_, _)
ByStrength(pop, H) ==
    IF H = {} THEN <<>>
    ELSE LET top == CHOOSE g \in H : \A x \in H :
                        \/ HueHistogram(pop, g) > HueHistogram(pop, x)
                        \/ /\ HueHistogram(pop, g) = HueHistogram(pop, x)
                           /\ g >= x
         IN  <<top>> \o ByStrength(pop, H \ {top})

\* find_peaks(distance = 15): from the strongest peak down, a peak that is
\* kept removes the peaks less than 15 bins away from it.
RECURSIVE SelectByDistance(_, _)
SelectByDistance(order, removed) ==
    IF order = <<>> THEN {}
    ELSE LET g == Head(order)
         IN  IF g \in removed THEN SelectByDistance(Tail(order), removed)
             ELSE {g} \cup SelectByDistance(Tail(order),
                      removed \cup {order[i] : i \in
                          {j \in 2..Len(order) : Abs(order[j] - g) < 15}})

\* lines 22-53: the peaks of the hue histogram, strongest first.  A peak is
\* an inner bin (1..178) higher than both neighbours, of height >= 50 and
\* prominence >= 30; the prominence of a bin between empty bins is its
\* height.
compute_histogram_peak(pop) ==
    LET hues == {pop[i].px.h : i \in 1..Len(pop)}
        maxima == {g \in hues :
                      /\ 1 <= g /\ g <= 178
                      /\ HueHistogram(pop, g) > HueHistogram(pop, g - 1)
                      /\ HueHistogram(pop, g) > HueHistogram(pop, g + 1)
                      /\ HueHistogram(pop, g) >= 50}
        kept == SelectByDistance(ByStrength(pop, maxima), {})
    IN  ByStrength(pop, {g \in kept : HueHistogram(pop, g) >= 30})

\* line 114.
GreenPeaks(hue_peaks) == SelectSeq(hue_peaks, LAMBDA g : 25 <= g /\ g <= 95)

\* BestCluster ranking the clusters by saturation alone.
BestCluster_BySaturation(greenish_clusters) ==
    LET best == {i \in 1..Len(greenish_clusters) :
                    \A j \in 1..Len(greenish_clusters) :
                        greenish_clusters[j].center.s
                            <= greenish_clusters[i].center.s}
        first == CHOOSE i \in best : \A j \in best : i <= j
    IN  greenish_clusters[first].center

\* lines 119-120, sort(key = (confidence, saturation), reverse = True)[0]:
\* the first cluster, in the order of the centres, that no other cluster
\* beats.
BestCluster(greenish_clusters) ==
    LET Beats(a, b) ==
            \/ a.confidence > b.confidence
            \/ a.confidence = b.confidence /\ a.center.s > b.center.s
        best == {i \in 1..Len(greenish_clusters) :
                    \A j \in 1..Len(greenish_clusters) :
                        ~Beats(greenish_clusters[j], greenish_clusters[i])}
        first == CHOOSE i \in best : \A j \in best : i <= j
    IN  greenish_clusters[first].center

\* lines 117-135: the green centre, or none when the static bounds are
\* returned.
ResolveCenter(centers, hue_peaks) ==
    LET greenish_clusters == GreenishClusters(centers)
        green_peaks == GreenPeaks(hue_peaks)
        typical_green == [h |-> 60 * T, s |-> 100 * T, v |-> 100 * T]
        c == BestCluster(greenish_clusters)
    IN  IF greenish_clusters # <<>>
        THEN IF green_peaks = <<>>
             THEN [kind |-> "center",
                   h |-> (7 * c.h + 3 * typical_green.h) \div 10,
                   s |-> (7 * c.s + 3 * typical_green.s) \div 10,
                   v |-> (7 * c.v + 3 * typical_green.v) \div 10]
             ELSE [kind |-> "center", h |-> c.h, s |-> c.s, v |-> c.v]
        ELSE IF green_peaks # <<>>
        THEN [kind |-> "center", h |-> green_peaks[1] * T, s |-> 80 * T,
              v |-> 80 * T]
        ELSE [kind |-> "none"]

\* astype(np.uint8) of a non-negative float in tenths.
AsUint8(x) == (x \div T) % 256

\* AdaptiveBounds without max(0, .), min(179, .) and the cast.
AdaptiveBounds_Unclamped(center, margin) ==
    LET sat_margin == Min2(60 * T, Max2(40 * T, 100 * T - center.s))
        val_margin == Min2(60 * T, Max2(40 * T, 120 * T - center.v))
    IN  [lower |-> <<(center.h - margin * T) \div T,
                     (center.s - sat_margin) \div T,
                     (center.v - val_margin) \div T>>,
         upper |-> <<(center.h + margin * T) \div T, 255, 255>>]

\* A hue margin that grows with the saturation.
HueMargin_Widening(sat, margin) ==
    Max2(10 * T, Min2(margin * T, 5 * T + (sat \div (10 * T)) * T))

\* line 141, max(10, min(margin, 25 - sat // 10)) in tenths; sat // 10 is a
\* whole number.
HueMargin(sat, margin) ==
    Max2(10 * T, Min2(margin * T, 25 * T - (sat \div (10 * T)) * T))

\* line 142, min(60, max(40, 100 - sat)) in tenths.
SatMargin(sat) == Min2(60 * T, Max2(40 * T, 100 * T - sat))

\* line 143, min(60, max(40, 120 - val)) in tenths.
ValMargin(val) == Min2(60 * T, Max2(40 * T, 120 * T - val))

\* lines 138-158: the bounds around a centre.
AdaptiveBounds(center, margin) ==
    LET hue == center.h
        sat == center.s
        val == center.v
        hue_margin == HueMargin(sat, margin)
        sat_margin == SatMargin(sat)
        val_margin == ValMargin(val)
    IN  [lower |-> <<AsUint8(Max2(0, hue - hue_margin)),
                     AsUint8(Max2(0, sat - sat_margin)),
                     AsUint8(Max2(0, val - val_margin))>>,
         upper |-> <<AsUint8(Min2(179 * T, hue + hue_margin)),
                     AsUint8(255 * T), AsUint8(255 * T)>>]

\* get_dynamic_green_bounds without its except clause.
get_dynamic_green_bounds_NoExcept(img, sample, raises) ==
    IF IsNone(img) \/ img.kind = "empty" THEN EmptyInputBounds
    ELSE IF raises # "none" THEN [raised |-> raises]
    ELSE StaticBounds

\* lines 55-163 with k = 4 and margin = 15.  sample is what lines 82-92
\* hand to KMeans, raises the step of the try block that raises ("none"
\* when none does).
get_dynamic_green_bounds(img, sample, raises) ==
    IF IsNone(img) \/ img.kind = "empty" THEN EmptyInputBounds
    ELSE IF raises # "none" THEN StaticBounds
    ELSE LET green_center ==
                 ResolveCenter(KMeansCenters(sample),
                               compute_histogram_peak(img.pixels))
         IN  IF green_center.kind = "none" THEN StaticBounds
             ELSE AdaptiveBounds(green_center, 15)

(***************************************************************************)
(* Inputs of the metric functions and of extract_metrics.                  *)
(***************************************************************************)
\* The most regions an image or a mask holds.
MaxRegions == 2

\* Shapes of regions: a speck under every area threshold, a patch between
\* the thresholds 50 and 100, a single leaf, a bush of three lobes (one too
\* shallow to seed a leaf), a sliver thinner than the kernels, and a ribbon
\* that is too elongated and too little circular.
Speck  == [area |-> 40, w |-> 7, h |-> 7,
           lobes |-> <<[depth |-> 3, area |-> 40, perim |-> 24]>>]

Patch  == [area |-> 80, w |-> 10, h |-> 9,
           lobes |-> <<[depth |-> 4, area |-> 80, perim |-> 34]>>]

Leaf   == [area |-> 400, w |-> 20, h |-> 25,
           lobes |-> <<[depth |-> 10, area |-> 400, perim |-> 80]>>]

Bush   == [area |-> 1200, w |-> 60, h |-> 30,
           lobes |-> <<[depth |-> 15, area |-> 500, perim |-> 90],
                       [depth |-> 12, area |-> 450, perim |-> 85],
                       [depth |-> 3, area |-> 250, perim |-> 70]>>]

Sliver == [area |-> 300, w |-> 150, h |-> 2,
           lobes |-> <<[depth |-> 1, area |-> 300, perim |-> 304]>>]

Ribbon == [area |-> 900, w |-> 180, h |-> 6,
           lobes |-> <<[depth |-> 3, area |-> 900, perim |-> 372]>>]

\* Colours of a region: the canonical healthy green, black, and a glaring
\* colour with every channel at its maximum.
Green == [h |-> 60, s |-> 255, v |-> 128, a |-> 0]

Black == [h |-> 0, s |-> 0, v |-> 0, a |-> 128]

Glare == [h |-> 179, s |-> 255, v |-> 255, a |-> 255]

\* A region of shape g and colour px on which the three segmentation
\* tests of preprocess_image come out as in_hsv, in_lab, adaptive.
Region(g, px, in_hsv, in_lab, adaptive) ==
    [area |-> g.area, w |-> g.w, h |-> g.h, lobes |-> g.lobes, px |-> px,
     in_hsv |-> in_hsv, in_lab |-> in_lab, adaptive |-> adaptive]

\* Sequences over S of length at most n.
SeqsUpTo(S, n) == UNION {[1..k -> S] : k \in 0..n}

MetricIdle ==
    /\ mask = None
    /\ inImage = None
    /\ weather = EmptyMap
    /\ wsRaises = FALSE
    /\ mres = EmptyMap

ExtractIdle ==
    /\ image = None
    /\ fault = "none"
    /\ ioOk = TRUE
    /\ pre = NoResult
    /\ loc = EmptyMap
    /\ exc = "none"
    /\ result = NoResult
    /\ out = NoResult

EstimatorIdle ==
    /\ bgr_img = None
    /\ gfault = "none"
    /\ gloc = EmptyMap
    /\ bounds = NoResult

RepeatIdle == calls = <<>>

ThreadIdle ==
    /\ job = EmptyMap
    /\ tpc = EmptyMap
    /\ data = EmptyMap
    /\ tres = EmptyMap

MarginIdle ==
    /\ given_center = None
    /\ margins = NoResult
    /\ prev_call = NoResult

PreprocIdle ==
    /\ size = <<300, 300>>
    /\ pcalls = <<>>

WrapperIdle ==
    /\ wfunc = None
    /\ wloc = NoResult
    /\ wout = NoResult

RouteIdle ==
    /\ analysis_results = EmptyMap
    /\ uploaded_images = EmptyMap
    /\ issued = 0
    /\ responses = <<>>

OtherIdle ==
    /\ MarginIdle
    /\ PreprocIdle
    /\ WrapperIdle
    /\ RouteIdle

ScoreIdle ==
    /\ before_metrics = EmptyMap
    /\ after_metrics = EmptyMap
    /\ ret = NoResult
    /\ resp = NoResult

(***************************************************************************)
(* utils/performance_monitor.py                                            *)
(***************************************************************************)
\* log_metric(metric), lines 55-72: append to the in-memory list, then read
\* the file, append and write it back.  When the file cannot be opened the
\* OSError leaves log_metric after the list was extended.
log_metric(metric) ==
    /\ metrics' = Append(metrics, metric)
    /\ logFile' = IF ioOk THEN Append(logFile, metric) ELSE logFile

(***************************************************************************)
(* Scoring specification: one call on a pair of metric sets.               *)
(***************************************************************************)
\* A metric set: every weighted key, or all but one of them.
MetricSets(D) == UNION {[Keys \ M -> D] : M \in {{}} \cup {{k} : k \in Keys}}

InitScore ==
    /\ pc = "start"
    /\ before_metrics \in [Keys -> BeforeVals]
    /\ after_metrics \in MetricSets(AfterVals)
    /\ ret = NoResult
    /\ resp = NoResult
    /\ metrics = <<>>
    /\ logFile = <<>>
    /\ MetricIdle
    /\ ExtractIdle
    /\ EstimatorIdle
    /\ RepeatIdle
    /\ ThreadIdle
    /\ OtherIdle

\* A caller calls the decorated compare_and_score_growth: the wrapper of
\* timing_decorator runs it, logs the metric and returns its result.
ScoreCall ==
    /\ pc = "start"
    /\ log_metric([operation |-> "growth_score_calculation",
                   success |-> TRUE])
    /\ ret' = IF ioOk
              THEN compare_and_score_growth(before_metrics, after_metrics)
              ELSE [raised |-> TRUE]
    /\ pc' = "scored"
    /\ UNCHANGED <<otherVars, before_metrics, after_metrics, resp, metricVars, estimatorVars, repeatVars, threadVars, extractVars>>

\* analyze_growth scores the same two metric sets inline.
AnalyzeScoring ==
    /\ pc = "scored"
    /\ resp' = analyze_growth_scoring(before_metrics, after_metrics)
    /\ pc' = "analyzed"
    /\ UNCHANGED <<otherVars, before_metrics, after_metrics, ret, logVars, metricVars, estimatorVars, repeatVars, threadVars,
                   extractVars>>

NextScore == ScoreCall \/ AnalyzeScoring

SpecScore == InitScore /\ [][NextScore]_vars

(***************************************************************************)
(* Claims on the growth scorer, checked under SpecScore.                   *)
(***************************************************************************)
Scored == pc \in {"scored", "analyzed"}

GPR == "green_pixel_ratio"

\* C1: for every pair of metric sets the score compare_and_score_growth
\* returns lies in [0, 100].
C1_ScoreInRange ==
    Scored => (0 <= ret.score /\ ret.score <= 100 * Q)

\* A call whose every delta is +100% or more, one of them beyond: score 100.
C1_Witness ==
    /\ pc = "scored"
    /\ ret.score = 100 * Q
    /\ \E k \in DOMAIN after_metrics :
           before_metrics[k] > 0 /\ after_metrics[k] > 2 * before_metrics[k]

\* C2: every weighted metric present in both sets, and no other, gets a
\* delta; it is (after - before) / before * 100 when before > 0, 0 when both
\* are 0, and 100 when before is 0 and after is not.
C2_DeltaRule ==
    Scored =>
        /\ DOMAIN ret.deltas =
               {k \in Keys : k \in DOMAIN before_metrics
                             /\ k \in DOMAIN after_metrics}
        /\ \A k \in DOMAIN ret.deltas :
               LET p == before_metrics[k]
                   c == after_metrics[k]
               IN  /\ p > 0 => ret.deltas[k] * p = (c - p) * 100 * Q
                   /\ (p = 0 /\ c = 0) => ret.deltas[k] = 0
                   /\ (p = 0 /\ c # 0) => ret.deltas[k] = 100 * Q

\* A call with a metric appearing from 0, one staying 0 and one changing
\* from a positive value by a fraction.
C2_Witness ==
    /\ pc = "scored"
    /\ \E k1, k2, k3 \in DOMAIN ret.deltas :
           /\ before_metrics[k1] = 0 /\ after_metrics[k1] > 0
           /\ before_metrics[k2] = 0 /\ after_metrics[k2] = 0
           /\ before_metrics[k3] = 2 /\ after_metrics[k3] = 1
           /\ ret.deltas[k3] = -(50 * Q)

\* The weights of the claim, in hundredths.
C3_Weights ==
    [k \in Keys |->
        IF k \in {"bounding_box_area", "green_pixel_ratio"} THEN 25
        ELSE IF k \in {"leaf_count", "color_health_index"} THEN 20
        ELSE 10]

\* C3: the score is clamp((A + 1) * 50, 0, 100), A the sum over the metrics
\* present in both sets of weight * clamp(delta / 100, -1, 1), with the
\* weights 0.25, 0.25, 0.20, 0.20, 0.10 that sum to 1; a delta beyond +100%
\* (below -100%) counts as +100% (-100%).
C3_ScoreFormula ==
    Scored =>
        LET present == DOMAIN ret.deltas
            term == [k \in present |->
                        (C3_Weights[k]
                         * Max2(-Q, Min2(Q, ret.deltas[k] \div 100))) \div 100]
            A == SumOver(term, present)
            score(a) == compare_and_score_growth(before_metrics, a).score
        IN  /\ STANDARD_WEIGHTS = C3_Weights
            /\ SumOver(STANDARD_WEIGHTS, Keys) = 100
            /\ ret.score = Max2(0, Min2(100 * Q, (A + Q) * 50))
            /\ \A k \in present :
                   before_metrics[k] > 0 =>
                       /\ after_metrics[k] > 2 * before_metrics[k] =>
                              ret.score =
                                  score([after_metrics EXCEPT
                                            ![k] = 2 * before_metrics[k]])
                       /\ score([after_metrics EXCEPT ![k] = -1])
                              = score([after_metrics EXCEPT ![k] = 0])

\* A call with one delta of +200% and a score below 100: the clamp of the
\* delta, not the clamp of the score, decides.
C3_Witness ==
    /\ pc = "scored"
    /\ ret.score < 100 * Q
    /\ \E k \in DOMAIN ret.deltas : ret.deltas[k] > 100 * Q
    /\ DOMAIN after_metrics # Keys

\* C4: for a metric set M of non-negative values, all 0 included,
\* compare_and_score_growth(M, M) returns score 50 and every delta 0.
C4_SameSetsNeutral ==
    (Scored /\ before_metrics = after_metrics) =>
        /\ ret.score = 50 * Q
        /\ DOMAIN ret.deltas = Keys
        /\ \A k \in Keys : ret.deltas[k] = 0

\* M against M with some values 0 and some positive.
C4_Witness ==
    /\ pc = "scored"
    /\ before_metrics = after_metrics
    /\ \E k \in Keys : before_metrics[k] = 0
    /\ \E k \in Keys : before_metrics[k] > 0

\* C5: with the before set and the other after metrics fixed, a larger
\* after green_pixel_ratio never gives a smaller score.
C5_MonotoneInGreen ==
    (Scored /\ GPR \in DOMAIN after_metrics) =>
        \A g \in AfterVals \cup {MaxVal + 1} :
            g > after_metrics[GPR] =>
                compare_and_score_growth(
                    before_metrics, [after_metrics EXCEPT ![GPR] = g]).score
                    >= ret.score

\* A call with green_pixel_ratio 0 before and after: any increase jumps to
\* the full credit.
C5_Witness ==
    /\ pc = "scored"
    /\ GPR \in DOMAIN after_metrics
    /\ before_metrics[GPR] = 0
    /\ after_metrics[GPR] = 0
    /\ compare_and_score_growth(
           before_metrics, [after_metrics EXCEPT ![GPR] = 1]).score > ret.score

\* C6: the score and the deltas of the /analyze handler equal those of
\* compare_and_score_growth on the same metric sets, up to the handler's
\* rounding (score to one decimal, deltas to two).
C6_HandlerMatchesScorer ==
    pc = "analyzed" =>
        /\ resp.delta_metrics =
               [k \in DOMAIN ret.deltas |-> RoundDiv(ret.deltas[k] * 100, Q)]
        /\ resp.growth_score = RoundDiv(ret.score * 10, Q)

(***************************************************************************)
(* Metric specification: the five metric functions on a mask, an image and *)
(* a weather record.                                                       *)
(***************************************************************************)
MetricRegions ==
    {Region(g, px, TRUE, TRUE, TRUE) :
        g \in {Leaf, Bush, Sliver, Ribbon}, px \in {Green, Black, Glare}}
    \cup {Region(Speck, Green, TRUE, TRUE, TRUE)}

\* Weather records with clouds in 0..100 and uvi >= 0: the corners, the
\* record extract_metrics passes, and a record without any field.
Weathers ==
    {[clouds |-> c, uvi |-> u, description |-> d] :
        c \in {0, 100}, u \in {0, 15}, d \in {{"clear"}, {"rain"}}}
    \cup {[clouds |-> 30, uvi |-> 6, description |-> {"clear"}]}
    \cup {[clouds |-> 50, uvi |-> 5, description |-> d] :
             d \in {{"partly", "cloudy"}, {"scattered"}, {"overcast"},
                    {"drizzle"}, {}}}
    \cup {EmptyMap}

InitMetric ==
    /\ pc = "m_bbox"
    /\ mask \in {None, Mask(0, 0, <<>>)}
                \cup {Mask(300, 300, s) : s \in SeqsUpTo(MetricRegions, MaxRegions)}
    /\ inImage \in {None, [kind |-> "image"]}
    /\ weather \in Weathers
    /\ wsRaises \in BOOLEAN
    /\ mres = EmptyMap
    /\ ScoreIdle
    /\ ExtractIdle
    /\ EstimatorIdle
    /\ RepeatIdle
    /\ ThreadIdle
    /\ OtherIdle
    /\ metrics = <<>>
    /\ logFile = <<>>

MetricStep(from, to, key, value) ==
    /\ pc = from
    /\ mres' = mres @@ (key :> value)
    /\ pc' = to
    /\ UNCHANGED <<otherVars, estimatorVars, repeatVars, threadVars, mask, inImage, weather, wsRaises, scoreVars, logVars,
                   extractVars>>

MetricBoundingBox ==
    MetricStep("m_bbox", "m_green", "bbox", calculate_bounding_box_area(mask))

MetricGreen ==
    MetricStep("m_green", "m_leaf", "green", calculate_green_pixel_count(mask))

MetricLeaf ==
    MetricStep("m_leaf", "m_chi", "leaf",
               estimate_leaf_count(mask, 50, wsRaises))

MetricCHI ==
    MetricStep("m_chi", "m_sun", "chi",
               calculate_color_health_index(inImage, mask))

MetricSunlight ==
    MetricStep("m_sun", "m_done", "sun",
               estimate_sunlight_proxy(inImage, mask, weather, 70))

NextMetric ==
    \/ MetricBoundingBox
    \/ MetricGreen
    \/ MetricLeaf
    \/ MetricCHI
    \/ MetricSunlight

SpecMetric == InitMetric /\ [][NextMetric]_vars

(***************************************************************************)
(* Claims on the metric functions, checked under SpecMetric.               *)
(***************************************************************************)
\* The contours of the cleaned mask that calculate_bounding_box_area keeps:
\* the regions wider and higher than 2 pixels with area >= 50 and aspect
\* ratio w / h in [0.1, 10], by their position in the mask.
C24_Survivors ==
    IF IsNone(mask) THEN {}
    ELSE {i \in 1..Len(mask.regions) :
             /\ mask.regions[i].w > 2 /\ mask.regions[i].h > 2
             /\ mask.regions[i].area >= 50
             /\ 10 * mask.regions[i].w >= mask.regions[i].h
             /\ mask.regions[i].w <= 10 * mask.regions[i].h}

\* C24: calculate_bounding_box_area discards the contours of the cleaned
\* mask with area < 50 or aspect ratio w / h outside [0.1, 10] and returns
\* w * h of the bounding rectangle of the surviving contour of largest
\* contour area; it returns (0, None) when the mask is empty or no contour
\* survives, and the area never exceeds the pixel count of the mask.
C24_BoundingBox ==
    "bbox" \in DOMAIN mres =>
        /\ C24_Survivors = {} =>
               mres.bbox.area = 0 /\ IsNone(mres.bbox.coords)
        /\ C24_Survivors # {} =>
               \E i \in C24_Survivors :
                   /\ \A j \in C24_Survivors :
                          mask.regions[j].area <= mask.regions[i].area
                   /\ mres.bbox.area = mask.regions[i].w * mask.regions[i].h
                   /\ mres.bbox.coords.w = mask.regions[i].w
                   /\ mres.bbox.coords.h = mask.regions[i].h
        /\ mres.bbox.area >= 0
        /\ ~IsNone(mask) => mres.bbox.area <= mask.rows * mask.cols

\* A mask of an elongated ribbon, larger in contour area, and a leaf: the
\* ribbon is discarded and the box of the leaf is returned.
C24_Witness ==
    /\ "bbox" \in DOMAIN mres
    /\ ~IsNone(mask)
    /\ \E i, j \in 1..Len(mask.regions) :
           /\ mask.regions[i].w > 10 * mask.regions[i].h
           /\ mask.regions[i].h > 2
           /\ mask.regions[i].area > mask.regions[j].area
           /\ j \in C24_Survivors
           /\ mres.bbox.area = mask.regions[j].w * mask.regions[j].h

\* The watershed labels other than -1, 0 and 1 of a mask: the lobes, by
\* region and position, of the regions left by the opening whose distance
\* to the background exceeds threshold_factor * max_dist.
C25_Labels ==
    LET kept == {i \in 1..Len(mask.regions) :
                    mask.regions[i].w > 4 /\ mask.regions[i].h > 4}
        all  == {<<i, j>> \in (1..Len(mask.regions)) \X (1..3) :
                    i \in kept /\ j <= Len(mask.regions[i].lobes)}
        depth(p) == mask.regions[p[1]].lobes[p[2]].depth
        deepest == {p \in all : \A q \in all : depth(q) <= depth(p)}
    IN  {p \in all :
            \E q \in deepest :
                \/ depth(q) >= 30 /\ 10 * depth(p) > 6 * depth(q)
                \/ depth(q) <= 15 /\ 10 * depth(p) > 3 * depth(q)
                \/ /\ depth(q) > 15 /\ depth(q) < 30
                   /\ 50 * depth(p) > depth(q) * depth(q)}

\* C25: estimate_leaf_count returns the number of watershed labels other
\* than -1, 0 and 1 whose region has area >= min_leaf_area (50) and
\* circularity 4 * pi * A / P^2 > 0.1; it returns 0 when the mask is empty,
\* when the distance transform has maximum 0 and when watershed raises, and
\* it is never negative.
C25_LeafCount ==
    "leaf" \in DOMAIN mres =>
        /\ mres.leaf >= 0
        /\ (IsNone(mask) \/ wsRaises) => mres.leaf = 0
        /\ (~IsNone(mask) /\ mask.regions = <<>>) => mres.leaf = 0
        /\ (~IsNone(mask) /\ C25_Labels = {}) => mres.leaf = 0
        /\ (~IsNone(mask) /\ ~wsRaises) =>
               mres.leaf =
                 Cardinality(
                   {p \in C25_Labels :
                      LET l == mask.regions[p[1]].lobes[p[2]]
                      IN  /\ l.area >= 50
                          /\ 4 * 355 * l.area * 10 > 113 * l.perim * l.perim})

\* A bush of three lobes next to a single leaf: the shallow lobe of the
\* bush is no label, the three other lobes are labels and are counted.
C25_Witness ==
    /\ "leaf" \in DOMAIN mres
    /\ ~IsNone(mask)
    /\ ~wsRaises
    /\ Len(mask.regions) = 2
    /\ Len(mask.regions[1].lobes) = 3
    /\ Len(mask.regions[2].lobes) = 1
    /\ Cardinality(C25_Labels) = 3
    /\ <<1, 3>> \notin C25_Labels
    /\ mres.leaf = 3

\* The position of the first term list of lines 340-348 that the weather
\* description of the call matches, 6 when none does.
C26_FirstMatch ==
    LET d == IF "description" \in DOMAIN weather
             THEN weather.description ELSE {}
        lists == <<{"clear", "sunny"}, {"partly", "few clouds"},
                   {"scattered", "broken"}, {"overcast", "cloudy"},
                   {"rain", "storm", "drizzle"}>>
        hits == {i \in 1..5 : \E term \in lists[i] : term \in d}
    IN  IF hits = {} THEN 6
        ELSE CHOOSE i \in hits : \A j \in hits : i <= j

\* C26: the weather modifier of estimate_sunlight_proxy is positive for a
\* clear or sunny description, smaller but positive for a partly cloudy
\* one, negative for an overcast or cloudy one and most negative for rain
\* or storm; the first list that matches, in the order clear/sunny,
\* partly/few clouds, scattered/broken, overcast/cloudy,
\* rain/storm/drizzle, decides, and a description matching none gives 0.
C26_WeatherModifier ==
    ("sun" \in DOMAIN mres /\ "weather_modifier" \in DOMAIN mres.sun.debug) =>
        LET wm == mres.sun.debug.weather_modifier
            by_list == <<15, 5, -5, -15, -25, 0>>
        IN  /\ 100 * wm = by_list[C26_FirstMatch] * F
            /\ C26_FirstMatch = 1 => wm > 0
            /\ C26_FirstMatch = 2 => wm > 0 /\ wm < (15 * F) \div 100
            /\ C26_FirstMatch \in {3, 4} => wm < 0
            /\ C26_FirstMatch = 5 =>
                   wm < 0 /\ \A i \in 1..6 : 100 * wm <= by_list[i] * F
            /\ C26_FirstMatch = 6 => wm = 0

\* A description that holds a term of the second list and a term of the
\* fourth ("partly cloudy"): the second list decides.
C26_Witness ==
    /\ "sun" \in DOMAIN mres
    /\ "weather_modifier" \in DOMAIN mres.sun.debug
    /\ "description" \in DOMAIN weather
    /\ "partly" \in weather.description
    /\ "cloudy" \in weather.description
    /\ 100 * mres.sun.debug.weather_modifier = 5 * F

(***************************************************************************)
(* core/Preprocessing/preprocess.py                                        *)
(***************************************************************************)
\* lines 17-99, size = (300, 300) unless given.  Returns the dictionary, or
\* raises when cv2.resize (line 41) rejects the image: an array that is no
\* image, or an image of zero pixels.
preprocess_image(img, sz) ==
    IF IsNone(img)
    THEN \* np.zeros((size[0], size[1], 3)) and np.zeros((size[0], size[1]))
         LET empty_img == [kind |-> "image", rows |-> sz[1], cols |-> sz[2],
                           regions |-> <<>>]
         IN  [kind |-> "ok",
              original   |-> empty_img,
              blurred    |-> empty_img,
              mask       |-> Mask(sz[1], sz[2], <<>>),
              plant_only |-> empty_img]
    ELSE IF img.kind \in {"malformed", "empty"} THEN [kind |-> "raise"]
    ELSE
    LET \* cv2.resize(img, size): size is (width, height)
        rows == sz[2]
        cols == sz[1]
        img_resized == [kind |-> "image", rows |-> rows, cols |-> cols,
                        regions |-> img.regions]
        \* (mask_hsv | mask_lab) & mask_adaptive
        combined_mask ==
            Mask(rows, cols,
                 SelectSeq(img.regions,
                     LAMBDA r : (r.in_hsv \/ r.in_lab) /\ r.adaptive))
        opened == MorphClose(MorphOpen(combined_mask, 3, 2), 5, 2)
        \* regions with contourArea < 100 are filled with 0
        mask_clean ==
            [opened EXCEPT !.regions =
                SelectSeq(opened.regions, LAMBDA r : ~(r.area < 100))]
    IN  [kind |-> "ok",
         original   |-> img_resized,
         blurred    |-> img_resized,
         mask       |-> mask_clean,
         plant_only |-> [img_resized EXCEPT !.regions = mask_clean.regions]]

(***************************************************************************)
(* Extraction specification: one call of the decorated extract_metrics.    *)
(***************************************************************************)
\* The default MetricSet of the except branch: lines 61-67.
Defaults == [k \in Keys |-> 0]

Steps == {"preprocess", "bbox", "green", "leaf", "chi", "hsv", "sunlight"}

ExtractRegions ==
    {Region(Leaf, Green, TRUE, FALSE, TRUE),
     Region(Bush, Green, FALSE, TRUE, TRUE),
     Region(Leaf, Black, FALSE, FALSE, TRUE),
     Region(Patch, Green, TRUE, TRUE, TRUE),
     Region(Leaf, Glare, TRUE, TRUE, FALSE)}

InitExtract ==
    /\ pc = "w_enter"
    /\ image \in {None, [kind |-> "malformed"], [kind |-> "empty"]}
                 \cup {[kind |-> "image", regions |-> s] :
                          s \in SeqsUpTo(ExtractRegions, MaxRegions)}
    /\ fault \in Steps \cup {"none", "watershed"}
    /\ ioOk \in BOOLEAN
    /\ pre = NoResult
    /\ loc = EmptyMap
    /\ exc = "none"
    /\ result = NoResult
    /\ out = NoResult
    /\ ScoreIdle
    /\ MetricIdle
    /\ EstimatorIdle
    /\ RepeatIdle
    /\ ThreadIdle
    /\ OtherIdle
    /\ metrics = <<>>
    /\ logFile = <<>>

\* timing_decorator, lines 20-24: the wrapper starts its clock and calls
\* the wrapped function.
WrapperEnter ==
    /\ pc = "w_enter"
    /\ pc' = "e_preprocess"
    /\ UNCHANGED <<otherVars, scoreVars, logVars, metricVars, estimatorVars, repeatVars, threadVars, extractVars>>

\* growth_analysis.py line 31.
ExtractPreprocess ==
    /\ pc = "e_preprocess"
    /\ LET p == preprocess_image(image, <<300, 300>>)
       IN  IF fault = "preprocess" \/ p.kind = "raise"
           THEN /\ exc' = "preprocess"
                /\ pc' = "e_except"
                /\ pre' = pre
           ELSE /\ pre' = p
                /\ pc' = "e_bbox"
                /\ exc' = exc
    /\ UNCHANGED <<otherVars, scoreVars, logVars, metricVars, estimatorVars, repeatVars, threadVars, image, fault, ioOk, loc,
                   result, out>>

\* One statement of the try block: it raises, or binds a local.
ExtractStep(from, to, step, key, value) ==
    /\ pc = from
    /\ IF fault = step
       THEN /\ exc' = step
            /\ pc' = "e_except"
            /\ loc' = loc
       ELSE /\ loc' = loc @@ (key :> value)
            /\ pc' = to
            /\ exc' = exc
    /\ UNCHANGED <<otherVars, scoreVars, logVars, metricVars, estimatorVars, repeatVars, threadVars, image, fault, ioOk, pre,
                   result, out>>

\* line 34.
ExtractBoundingBox ==
    ExtractStep("e_bbox", "e_green", "bbox", "bounding_box_area",
                calculate_bounding_box_area(pre.mask).area)

\* line 37.
ExtractGreen ==
    ExtractStep("e_green", "e_leaf", "green", "green_pixel_ratio",
                calculate_green_pixel_count(pre.mask).ratio)

\* line 40.
ExtractLeaf ==
    ExtractStep("e_leaf", "e_chi", "leaf", "leaf_count",
                estimate_leaf_count(pre.mask, 50, fault = "watershed"))

\* line 43.
ExtractCHI ==
    ExtractStep("e_chi", "e_hsv", "chi", "color_health_index",
                calculate_color_health_index(pre.plant_only, pre.mask).chi)

\* line 46: cv2.cvtColor(preprocessed["blurred"], cv2.COLOR_BGR2HSV).
ExtractHSV ==
    ExtractStep("e_hsv", "e_sun", "hsv", "hsv", pre.blurred)

\* lines 47-48.
ExtractSunlight ==
    /\ pc = "e_sun"
    /\ LET dummy_weather ==
               [clouds |-> 30, uvi |-> 6, description |-> {"clear"}]
           s == estimate_sunlight_proxy(loc["hsv"], pre.mask, dummy_weather, 70)
       IN  IF fault = "sunlight"
           THEN /\ exc' = "sunlight"
                /\ pc' = "e_except"
                /\ loc' = loc
           ELSE /\ loc' = loc @@ ("sunlight_proxy" :> s.score)
                                @@ ("sun_debug" :> s.debug)
                /\ pc' = "e_return"
                /\ exc' = exc
    /\ UNCHANGED <<otherVars, scoreVars, logVars, metricVars, estimatorVars, repeatVars, threadVars, image, fault, ioOk, pre,
                   result, out>>

\* lines 50-56: the MetricSet of the five locals.
ExtractReturn ==
    /\ pc = "e_return"
    /\ result' = [k \in Keys |-> loc[k]]
    /\ pc' = "w_log"
    /\ UNCHANGED <<otherVars, scoreVars, logVars, metricVars, estimatorVars, repeatVars, threadVars, image, fault, ioOk, pre,
                   loc, exc, out>>

\* ExtractExcept keeping the metrics computed before the failure.
ExtractExcept_Partial ==
    /\ pc = "e_except"
    /\ result' = [k \in Keys |-> IF k \in DOMAIN loc THEN loc[k] ELSE 0]
    /\ pc' = "w_log"
    /\ UNCHANGED <<otherVars, scoreVars, logVars, metricVars, estimatorVars, repeatVars, threadVars, image, fault, ioOk, pre,
                   loc, exc, out>>

\* lines 58-67: except Exception.
ExtractExcept ==
    /\ pc = "e_except"
    /\ result' = Defaults
    /\ pc' = "w_log"
    /\ UNCHANGED <<otherVars, scoreVars, logVars, metricVars, estimatorVars, repeatVars, threadVars, image, fault, ioOk, pre,
                   loc, exc, out>>

\* timing_decorator, lines 32-51: the wrapper logs the metric and returns
\* the result.  log_metric (lines 55-72) appends to the list, then reads
\* and rewrites the file outside any try: an OSError leaves the wrapper.
WrapperLog ==
    /\ pc = "w_log"
    /\ log_metric([operation |-> "image_preprocessing", success |-> TRUE])
    /\ out' = IF ioOk THEN [kind |-> "returned", value |-> result]
              ELSE [kind |-> "raised"]
    /\ pc' = "done"
    /\ UNCHANGED <<otherVars, scoreVars, metricVars, estimatorVars, repeatVars, threadVars, image, fault, ioOk, pre, loc, exc,
                   result>>

NextExtract ==
    \/ WrapperEnter
    \/ ExtractPreprocess
    \/ ExtractBoundingBox
    \/ ExtractGreen
    \/ ExtractLeaf
    \/ ExtractCHI
    \/ ExtractHSV
    \/ ExtractSunlight
    \/ ExtractReturn
    \/ ExtractExcept
    \/ WrapperLog

SpecExtract == InitExtract /\ [][NextExtract]_vars

(***************************************************************************)
(* Claims on the metric functions, checked under SpecMetric.               *)
(***************************************************************************)
InUnit(x) == 0 <= x /\ x <= F

\* C9: for every mask, pixel content and weather record with clouds in
\* 0..100 and uvi >= 0, the green pixel ratio, the colour health index and
\* the sunlight proxy are in [0, 1].
C9_MetricsInUnitInterval ==
    /\ "green" \in DOMAIN mres => InUnit(mres["green"].ratio)
    /\ "chi" \in DOMAIN mres => InUnit(mres["chi"].chi)
    /\ "sun" \in DOMAIN mres => InUnit(mres["sun"].score)

\* All three computed on a mask with pixels set, the index at its maximum,
\* under a clear sky with a UV index beyond the cap.
C9_Witness ==
    /\ pc = "m_done"
    /\ mres["green"].ratio > 0
    /\ mres["chi"].chi = F
    /\ mres["sun"].score > 0
    /\ "clouds" \in DOMAIN weather
    /\ weather.clouds = 0
    /\ weather.uvi = 15

(***************************************************************************)
(* Claims on extract_metrics, checked under SpecExtract.                   *)
(***************************************************************************)
\* C7: whatever the image and whichever step fails, the caller of
\* extract_metrics gets a MetricSet, never an exception.
C7_CallerNeverSeesException ==
    pc = "done" => (out.kind = "returned" /\ DOMAIN out.value = Keys)

\* C8: whatever extract_metrics returns has exactly the five keys, and when
\* a step raised all five values are the defaults.
C8_WholeOrDefault ==
    /\ pc \in {"w_log", "done"} =>
           /\ DOMAIN result = Keys
           /\ exc # "none" => result = Defaults
    /\ (pc = "done" /\ out.kind = "returned") => out.value = result

\* The sunlight step raised after four metrics were computed, one of them
\* not the default, and the caller got the defaults.
C8_Witness ==
    /\ pc = "done"
    /\ out.kind = "returned"
    /\ exc = "sunlight"
    /\ loc["bounding_box_area"] > 0
    /\ loc["color_health_index"] > 0
    /\ out.value = Defaults

\* C10: with an all-zero segmentation mask no metric function raises, the
\* MetricSet is (0, 0.0, 0, 0.0, 0.0), and the sunlight estimator's debug
\* record carries an error marker.
C10_ZeroMaskDefaults ==
    (/\ pc \in {"w_log", "done"}
     /\ fault = "none"
     /\ "mask" \in DOMAIN pre
     /\ MaskSumZero(pre.mask)) =>
        /\ exc = "none"
        /\ result = [k \in Keys |-> 0]
        /\ "error" \in DOMAIN loc["sun_debug"]
        /\ pc = "done" /\ out.kind = "returned" => out.value = result

\* An image with regions none of which passes the segmentation, returned
\* without an exception.
C10_Witness ==
    /\ pc = "done"
    /\ fault = "none"
    /\ image.kind = "image"
    /\ image.regions # <<>>
    /\ "mask" \in DOMAIN pre
    /\ MaskSumZero(pre.mask)
    /\ exc = "none"
    /\ out.kind = "returned"

(***************************************************************************)
(* Estimator specification: one call of get_dynamic_green_bounds.          *)
(***************************************************************************)
\* The most foreground classes of a pixel population.
MaxForeground == 2

\* Colours after CLAHE: a dark and a white background, a red, three primary
\* greens (Lime and Fern of equal saturation, Deep more saturated), two
\* extended greens (Olive barely saturated, Teal fully saturated) and a
\* pale green below every saturation threshold.
Dark  == [h |-> 0, s |-> 0, v |-> 10]

White == [h |-> 0, s |-> 0, v |-> 255]

Red   == [h |-> 5, s |-> 200, v |-> 200]

Lime  == [h |-> 60, s |-> 200, v |-> 150]

Fern  == [h |-> 70, s |-> 200, v |-> 100]

Deep  == [h |-> 50, s |-> 250, v |-> 200]

Olive == [h |-> 30, s |-> 25, v |-> 35]

Teal  == [h |-> 90, s |-> 255, v |-> 255]

Pale  == [h |-> 60, s |-> 10, v |-> 200]

\* Foreground classes: fewer pixels than every threshold (50, 100), a few
\* hundred, and more than one sample holds.
ForegroundClasses ==
    {[n |-> n, px |-> px] :
        n \in {40, 400, 20000},
        px \in {Red, Lime, Fern, Deep, Olive, Teal, Pale}}

\* The populations of a 300 x 300 image: foreground classes of different
\* colours and a background that fills the 90000 pixels.
Populations ==
    {fg \o <<[n |-> 300 * 300 - PopSize(fg), px |-> bg]>> :
        fg \in {f \in SeqsUpTo(ForegroundClasses, MaxForeground) :
                   \A i, j \in 1..Len(f) : f[i].px = f[j].px => i = j},
        bg \in {Dark, White}}

EstimatorSteps == {"resize", "cluster", "peaks"}

InitEstimator ==
    /\ pc = "g_call"
    /\ bgr_img \in {None, [kind |-> "empty"]}
                   \cup {[kind |-> "image", pixels |-> p] : p \in Populations}
    /\ gfault \in EstimatorSteps \cup {"none"}
    /\ gloc = EmptyMap
    /\ bounds = NoResult
    /\ ScoreIdle
    /\ MetricIdle
    /\ ExtractIdle
    /\ RepeatIdle
    /\ ThreadIdle
    /\ OtherIdle
    /\ metrics = <<>>
    /\ logFile = <<>>

\* A call of get_dynamic_green_bounds(bgr_img).  The locals are recorded
\* when the call gets as far as line 135.
EstimatorCall ==
    /\ pc = "g_call"
    /\ IF IsNone(bgr_img) \/ bgr_img.kind = "empty"
       THEN /\ gloc' = [path |-> "empty"]
            /\ bounds' = get_dynamic_green_bounds(bgr_img, <<>>, gfault)
       ELSE \E sample \in Samples(BrightPixels(bgr_img.pixels)) :
            /\ bounds' = get_dynamic_green_bounds(bgr_img, sample, gfault)
            /\ gloc' =
                 IF gfault # "none" THEN [path |-> "except"]
                 ELSE [path |-> "try",
                       pixels |-> sample,
                       centers |-> KMeansCenters(sample),
                       hue_peaks |-> compute_histogram_peak(bgr_img.pixels),
                       green_center |->
                           ResolveCenter(KMeansCenters(sample),
                               compute_histogram_peak(bgr_img.pixels))]
    /\ pc' = "g_done"
    /\ UNCHANGED <<otherVars, repeatVars, threadVars, bgr_img, gfault, scoreVars, logVars, metricVars,
                   extractVars>>

NextEstimator == EstimatorCall

SpecEstimator == InitEstimator /\ [][NextEstimator]_vars

(***************************************************************************)
(* Claims on get_dynamic_green_bounds, checked under SpecEstimator.        *)
(***************************************************************************)
\* C11: get_dynamic_green_bounds never propagates an error: on None, on a
\* zero-size image, on an image where resizing, clustering or peak
\* detection raises and on a valid image the call returns a (lower, upper)
\* pair of 3-component bounds.
C11_NeverRaises ==
    pc = "g_done" =>
        /\ DOMAIN bounds = {"lower", "upper"}
        /\ Len(bounds.lower) = 3
        /\ Len(bounds.upper) = 3

\* A call on an image in which the clustering raised has returned.
C11_Witness ==
    /\ pc = "g_done"
    /\ ~IsNone(bgr_img)
    /\ bgr_img.kind = "image"
    /\ gfault = "cluster"
    /\ DOMAIN bounds = {"lower", "upper"}

\* C12: every returned pair satisfies 0 <= lower <= upper componentwise,
\* with the hue components at most 179 and the saturation and value
\* components at most 255.
C12_BoundsOrdered ==
    pc = "g_done" =>
        /\ \A i \in 1..3 : 0 <= bounds.lower[i]
                           /\ bounds.lower[i] <= bounds.upper[i]
        /\ bounds.upper[1] <= 179
        /\ bounds.upper[2] <= 255
        /\ bounds.upper[3] <= 255

\* Adaptive bounds around a barely saturated centre: the lower saturation
\* bound is clamped at 0 while the lower hue bound is positive.
C12_Witness ==
    /\ pc = "g_done"
    /\ "green_center" \in DOMAIN gloc
    /\ gloc.green_center.kind = "center"
    /\ gloc.green_center.s < 40 * T
    /\ bounds.lower[2] = 0
    /\ bounds.lower[1] > 0

\* Whether the call could not estimate bounds: None or empty input, no
\* green cluster and no green peak, or an exception.
CannotEstimate ==
    \/ gloc.path \in {"empty", "except"}
    \/ gloc.path = "try" /\ gloc.green_center.kind = "none"

\* C13: whenever get_dynamic_green_bounds cannot estimate bounds, it
\* returns the same static pair as on every other failure path: the pair of
\* a None image, of a zero-size image and of an image on which a step
\* raises.
C13_OneStaticPair ==
    (pc = "g_done" /\ CannotEstimate) =>
        /\ bounds = get_dynamic_green_bounds(None, <<>>, "none")
        /\ bounds = get_dynamic_green_bounds([kind |-> "empty"], <<>>, "none")
        /\ \A step \in EstimatorSteps :
               bounds = get_dynamic_green_bounds(
                            [kind |-> "image", pixels |-> <<>>], <<>>, step)

\* The classification of a cluster centre c (coordinates in tenths):
\* 10 for hue 40..80, sat >= 30, val >= 40; 6 for hue 25..95, sat >= 20,
\* val >= 30; 0 otherwise.
C20_Rank(c) ==
    IF 400 <= c.h /\ c.h <= 800 /\ c.s >= 300 /\ c.v >= 400 THEN 10
    ELSE IF 250 <= c.h /\ c.h <= 950 /\ c.s >= 200 /\ c.v >= 300 THEN 6
    ELSE 0

\* C20: the green centre is resolved in this order.  With a green cluster
\* centre, it is a green cluster that no other beats by confidence and
\* then saturation, blended 0.7/0.3 with (60, 100, 100) exactly when no
\* histogram peak lies in hue 25..95.  Else, with such a peak, it is
\* (strongest such peak, 80, 80).  Else the static bounds are returned and
\* no centre is computed.
C20_ResolutionOrder ==
    (pc = "g_done" /\ gloc.path = "try") =>
        LET green == {i \in 1..Len(gloc.centers) :
                         C20_Rank(gloc.centers[i]) > 0}
            top == {i \in green : \A j \in green :
                       LET a == gloc.centers[i]
                           b == gloc.centers[j]
                       IN  \/ C20_Rank(a) > C20_Rank(b)
                           \/ C20_Rank(a) = C20_Rank(b) /\ a.s >= b.s}
            peaks == {gloc.hue_peaks[i] : i \in 1..Len(gloc.hue_peaks)}
                         \cap (25..95)
            strongest == {g \in peaks : \A x \in peaks :
                             HueHistogram(bgr_img.pixels, g)
                                 >= HueHistogram(bgr_img.pixels, x)}
            gc == gloc.green_center
        IN  IF green # {}
            THEN /\ gc.kind = "center"
                 /\ \E i \in top :
                        LET c == gloc.centers[i]
                        IN  IF peaks = {}
                            THEN /\ 10 * gc.h = 7 * c.h + 3 * 600
                                 /\ 10 * gc.s = 7 * c.s + 3 * 1000
                                 /\ 10 * gc.v = 7 * c.v + 3 * 1000
                            ELSE gc.h = c.h /\ gc.s = c.s /\ gc.v = c.v
            ELSE IF peaks # {}
            THEN \E g \in strongest :
                     gc = [kind |-> "center", h |-> g * 10, s |-> 800,
                           v |-> 800]
            ELSE gc.kind = "none" /\ bounds = StaticBounds

\* Two green clusters, the more saturated one of lower confidence, and no
\* histogram peak to corroborate them: the centre is the blend.
C20_Witness ==
    /\ pc = "g_done"
    /\ gloc.path = "try"
    /\ \E i, j \in 1..Len(gloc.centers) :
           /\ C20_Rank(gloc.centers[i]) = 10
           /\ C20_Rank(gloc.centers[j]) = 6
           /\ gloc.centers[j].s > gloc.centers[i].s
           /\ 10 * gloc.green_center.s = 7 * gloc.centers[i].s + 3 * 1000
    /\ GreenPeaks(gloc.hue_peaks) = <<>>

\* The pixels of the working image brighter than near-black (V > 30).
C21_BrightPixelCount ==
    SumSeq([i \in 1..Len(bgr_img.pixels) |->
               IF bgr_img.pixels[i].px.v > 30 THEN bgr_img.pixels[i].n ELSE 0],
           Len(bgr_img.pixels))

\* C21: in get_dynamic_green_bounds the sample handed to clustering holds at
\* most 10,000 pixels, and it contains no near-black pixel (V <= 30)
\* whenever more than 100 pixels of the working image have V > 30; with 100
\* such pixels or fewer the sample is drawn from all pixels.
C21_SampleBounded ==
    (pc = "g_done" /\ gloc.path = "try") =>
        /\ PopSize(gloc.pixels) <= 10000
        /\ PopSize(gloc.pixels) > 0
        /\ C21_BrightPixelCount > 100 =>
               \A i \in 1..Len(gloc.pixels) : gloc.pixels[i].px.v > 30
        /\ C21_BrightPixelCount <= 100 =>
               \A i \in 1..Len(gloc.pixels) :
                   \E j \in 1..Len(bgr_img.pixels) :
                       gloc.pixels[i].px = bgr_img.pixels[j].px

\* The statement without the condition on the bright pixels: the sample
\* holds at most 10,000 pixels and none of them is near-black, for every
\* working image.
C21_SampleNoNearBlack ==
    (pc = "g_done" /\ gloc.path = "try") =>
        /\ PopSize(gloc.pixels) <= 10000
        /\ \A i \in 1..Len(gloc.pixels) : gloc.pixels[i].px.v > 30

\* A dark image with a large bright foreground: the 10,000 sampled pixels
\* are all bright although most pixels of the image are near-black.
C21_Witness ==
    /\ pc = "g_done"
    /\ gloc.path = "try"
    /\ \E j \in 1..Len(bgr_img.pixels) :
           bgr_img.pixels[j].px.v <= 30 /\ bgr_img.pixels[j].n > 10000
    /\ C21_BrightPixelCount > 10000
    /\ PopSize(gloc.pixels) = 10000
    /\ \A i \in 1..Len(gloc.pixels) : gloc.pixels[i].px.v > 30

(***************************************************************************)
(* Margin specification: the bounds calculation of lines 138-158 applied   *)
(* to one centre after the other.                                          *)
(***************************************************************************)
\* Centre coordinates in tenths: both ends of the range, and values on both
\* sides of every threshold of the margins (saturation 40, 60 and
\* 110 .. 150; value 60 and 80).
CenterHues == {50, 1750}

CenterSats == {0, 395, 405, 598, 605, 1099, 1100, 1205, 1499, 1500, 2550}

CenterVals == {0, 600, 605, 795, 800, 2550}

Centers ==
    {[kind |-> "center", h |-> h, s |-> s, v |-> v] :
        h \in CenterHues, s \in CenterSats, v \in CenterVals}

InitMargins ==
    /\ pc = "b_call"
    /\ given_center \in Centers
    /\ margins = NoResult
    /\ prev_call = NoResult
    /\ ScoreIdle
    /\ MetricIdle
    /\ ExtractIdle
    /\ EstimatorIdle
    /\ RepeatIdle
    /\ ThreadIdle
    /\ PreprocIdle
    /\ WrapperIdle
    /\ RouteIdle
    /\ metrics = <<>>
    /\ logFile = <<>>

\* lines 138-158 on given_center with margin = 15: the three margins and
\* the pair returned.
MarginCall ==
    /\ pc = "b_call"
    /\ margins' =
          [hue_margin |-> HueMargin(given_center.s, 15),
           sat_margin |-> SatMargin(given_center.s),
           val_margin |-> ValMargin(given_center.v)]
          @@ AdaptiveBounds(given_center, 15)
    /\ pc' = "b_done"
    /\ UNCHANGED <<given_center, prev_call, scoreVars, logVars, metricVars,
                   extractVars, estimatorVars, repeatVars, threadVars,
                   preprocVars, wrapperVars, routeVars>>

\* The next call, on another centre.
MarginAgain ==
    /\ pc = "b_done"
    /\ prev_call = NoResult
    /\ \E c \in Centers : given_center' = c
    /\ prev_call' = [center |-> given_center, margins |-> margins]
    /\ margins' = NoResult
    /\ pc' = "b_call"
    /\ UNCHANGED <<scoreVars, logVars, metricVars, extractVars,
                   estimatorVars, repeatVars, threadVars, preprocVars,
                   wrapperVars, routeVars>>

NextMargins ==
    \/ MarginCall
    \/ MarginAgain

SpecMargins == InitMargins /\ [][NextMargins]_vars

\* C22: on the adaptive path the hue margin is non-increasing in the
\* centre's saturation and lies in [10, 15] for margin 15; the saturation
\* margin is non-increasing in the centre's saturation and the value margin
\* in the centre's value, both within [40, 60]; the upper saturation and
\* value bounds are always 255.
C22_AdaptiveMargins ==
    pc = "b_done" =>
        /\ margins.hue_margin >= 10 * T /\ margins.hue_margin <= 15 * T
        /\ margins.sat_margin >= 40 * T /\ margins.sat_margin <= 60 * T
        /\ margins.val_margin >= 40 * T /\ margins.val_margin <= 60 * T
        /\ margins.upper[2] = 255
        /\ margins.upper[3] = 255
        /\ prev_call # NoResult =>
              /\ prev_call.center.s <= given_center.s =>
                    /\ prev_call.margins.hue_margin >= margins.hue_margin
                    /\ prev_call.margins.sat_margin >= margins.sat_margin
              /\ prev_call.center.v <= given_center.v =>
                    prev_call.margins.val_margin >= margins.val_margin

\* Two calls, the second on a more saturated and brighter centre, whose
\* three margins all shrink from their largest to their smallest value.
C22_Witness ==
    /\ pc = "b_done"
    /\ prev_call # NoResult
    /\ prev_call.center.s < given_center.s
    /\ prev_call.center.v < given_center.v
    /\ prev_call.margins.hue_margin = 15 * T /\ margins.hue_margin = 10 * T
    /\ prev_call.margins.sat_margin = 60 * T /\ margins.sat_margin = 40 * T
    /\ prev_call.margins.val_margin = 60 * T /\ margins.val_margin = 40 * T
    /\ margins.upper[2] = 255

(***************************************************************************)
(* Preprocessing specification: preprocess_image called twice with one     *)
(* size, on a missing image or on a real one.                              *)
(***************************************************************************)
\* The sizes (size[0], size[1]) asked for: the default, another square and
\* two that are not square.
Sizes == {<<300, 300>>, <<200, 200>>, <<400, 300>>, <<300, 400>>}

\* The images handed to preprocess_image, by their regions as they lie in
\* the resized image.
PreprocImages ==
    {None} \cup {[kind |-> "image", regions |-> s] :
                    s \in SeqsUpTo(ExtractRegions, MaxRegions)}

InitPreprocess ==
    /\ pc = "p_call"
    /\ size \in Sizes
    /\ pcalls = <<>>
    /\ ScoreIdle
    /\ MetricIdle
    /\ ExtractIdle
    /\ EstimatorIdle
    /\ RepeatIdle
    /\ ThreadIdle
    /\ MarginIdle
    /\ WrapperIdle
    /\ RouteIdle
    /\ metrics = <<>>
    /\ logFile = <<>>

\* One call preprocess_image(img, size).
PreprocessCall ==
    /\ pc = "p_call"
    /\ \E img \in PreprocImages :
           pcalls' = Append(pcalls, [img |-> img,
                                    out |-> preprocess_image(img, size)])
    /\ pc' = IF Len(pcalls) = 0 THEN "p_call" ELSE "p_done"
    /\ UNCHANGED <<size, scoreVars, logVars, metricVars, extractVars,
                   estimatorVars, repeatVars, threadVars, marginVars,
                   wrapperVars, routeVars>>

NextPreprocess == PreprocessCall

SpecPreprocess == InitPreprocess /\ [][NextPreprocess]_vars

\* C23: for every requested size (w, h), square or not, the mask that
\* preprocess_image returns has the height and the width of the working
\* image, of the blurred image and of the plant-only image, and the outputs
\* of the missing-image branch have the dimensions of the outputs for a
\* real image of that size.
C23_SameDimensions ==
    /\ \A i \in 1..Len(pcalls) :
           LET o == pcalls[i].out
           IN  \A k \in {"original", "blurred", "plant_only"} :
                   o.mask.rows = o[k].rows /\ o.mask.cols = o[k].cols
    /\ \A i, j \in 1..Len(pcalls) :
           (IsNone(pcalls[i].img) /\ ~IsNone(pcalls[j].img)) =>
               \A k \in {"original", "blurred", "mask", "plant_only"} :
                   /\ pcalls[i].out[k].rows = pcalls[j].out[k].rows
                   /\ pcalls[i].out[k].cols = pcalls[j].out[k].cols

(***************************************************************************)
(* Wrapper specification: calls of a function wrapped by timing_decorator, *)
(* one after the other.                                                    *)
(***************************************************************************)
\* The most calls of the wrapped function.
MaxCalls == 2

\* How a wrapped function ends: it returns a value (None included), it
\* raises an Exception, or it raises a BaseException that is no Exception
\* (SystemExit, KeyboardInterrupt).
Outcomes ==
    {[kind |-> "returns", value |-> v] :
        v \in {None, [kind |-> "value", v |-> 1], [kind |-> "value", v |-> 2]}}
    \cup {[kind |-> "raises", error |-> e] : e \in {"bad input", ""}}
    \cup {[kind |-> "exits", error |-> "SystemExit"]}

InitWrapper ==
    /\ pc = "d_idle"
    /\ wfunc = None
    /\ wloc = NoResult
    /\ wout = NoResult
    /\ ioOk \in BOOLEAN
    /\ metrics = <<>>
    /\ logFile \in {<<>>, <<[operation |-> "wrapped", success |-> TRUE,
                            error |-> None, call |-> 0]>>}
    /\ image = None
    /\ fault = "none"
    /\ pre = NoResult
    /\ loc = EmptyMap
    /\ exc = "none"
    /\ result = NoResult
    /\ out = NoResult
    /\ ScoreIdle
    /\ MetricIdle
    /\ EstimatorIdle
    /\ RepeatIdle
    /\ ThreadIdle
    /\ MarginIdle
    /\ PreprocIdle
    /\ RouteIdle

\* The number of calls of the wrapper made so far.
CallsMade == IF IsNone(wfunc) THEN 0 ELSE wfunc.call

\* wrapper(*args, **kwargs) is called, lines 19-21.
WrapCall ==
    /\ pc = "d_idle"
    /\ CallsMade < MaxCalls
    /\ \E o \in Outcomes : wfunc' = o @@ [call |-> CallsMade + 1]
    /\ wloc' = NoResult
    /\ wout' = NoResult
    /\ pc' = "d_try"
    /\ UNCHANGED <<scoreVars, logVars, metricVars, extractVars,
                   estimatorVars, repeatVars, threadVars, marginVars,
                   preprocVars, routeVars>>

\* lines 23-30: the try statement around func(*args, **kwargs); except
\* Exception does not catch a BaseException, which leaves the wrapper.
WrapTry ==
    /\ pc = "d_try"
    /\ CASE wfunc.kind = "returns" ->
              /\ wloc' = [result |-> wfunc.value, success |-> TRUE,
                          error |-> None]
              /\ pc' = "d_log"
              /\ UNCHANGED wout
         [] wfunc.kind = "raises" ->
              /\ wloc' = [result |-> None, success |-> FALSE,
                          error |-> [kind |-> "str", text |-> wfunc.error]]
              /\ pc' = "d_log"
              /\ UNCHANGED wout
         [] wfunc.kind = "exits" ->
              /\ wout' = [kind |-> "raised", error |-> wfunc.error]
              /\ pc' = "d_idle"
              /\ UNCHANGED wloc
    /\ UNCHANGED <<wfunc, scoreVars, logVars, metricVars, extractVars,
                   estimatorVars, repeatVars, threadVars, marginVars,
                   preprocVars, routeVars>>

\* lines 32-51: the metric is built and logged, and result is returned.
\* log_metric runs outside any try: an OSError of open() leaves the wrapper.
WrapLog ==
    /\ pc = "d_log"
    /\ log_metric([operation |-> "wrapped", success |-> wloc.success,
                   error |-> wloc.error, call |-> wfunc.call])
    /\ wout' = IF ioOk THEN [kind |-> "returned", value |-> wloc.result]
               ELSE [kind |-> "raised", error |-> "OSError"]
    /\ pc' = "d_idle"
    /\ UNCHANGED <<wfunc, wloc, scoreVars, metricVars, extractVars,
                   estimatorVars, repeatVars, threadVars, marginVars,
                   preprocVars, routeVars>>

NextWrapper ==
    \/ WrapCall
    \/ WrapTry
    \/ WrapLog

SpecWrapper == InitWrapper /\ [][NextWrapper]_vars

\* C28: a function wrapped by timing_decorator logs exactly one metric per
\* call, with success = true and error = None exactly when the wrapped
\* function returned normally; on a normal return the wrapper returns the
\* function's result unchanged, and when the function raises the wrapper
\* does not re-raise: it returns None after logging success = false with
\* the error text.  Stated for a function that returns or raises an
\* Exception.
C28_WrapperContract ==
    (pc = "d_idle" /\ ~IsNone(wfunc) /\ wfunc.kind \in {"returns", "raises"})
    =>  LET logged == {i \in 1..Len(metrics) : metrics[i].call = wfunc.call}
        IN  /\ Cardinality(logged) = 1
            /\ \A i \in logged :
                   /\ (metrics[i].success /\ IsNone(metrics[i].error))
                         <=> wfunc.kind = "returns"
                   /\ wfunc.kind = "raises" =>
                          /\ ~metrics[i].success
                          /\ metrics[i].error
                                 = [kind |-> "str", text |-> wfunc.error]
            /\ wfunc.kind = "returns" =>
                   wout = [kind |-> "returned", value |-> wfunc.value]
            /\ wfunc.kind = "raises" =>
                   wout = [kind |-> "returned", value |-> None]

(***************************************************************************)
(* Repetition specification: extract_metrics called twice on one image.    *)
(* The image is given by its regions and by its pixel population.          *)
(***************************************************************************)
\* preprocess.py line 57, cv2.inRange(hsv, lower_green, upper_green).
InRange(px, lower, upper) ==
    /\ lower[1] <= px.h /\ px.h <= upper[1]
    /\ lower[2] <= px.s /\ px.s <= upper[2]
    /\ lower[3] <= px.v /\ px.v <= upper[3]

\* preprocess.py lines 53-57: mask_hsv of the regions of img under the
\* bounds b of get_dynamic_green_bounds.
WithBounds(img, b) ==
    [img EXCEPT !.regions =
        [i \in 1..Len(img.regions) |->
            [img.regions[i] EXCEPT
                !.in_hsv = InRange(img.regions[i].px, b.lower, b.upper)]]]

\* The mask preprocess_image builds when the clustering gets sample.
MaskOf(img, sample) ==
    preprocess_image(
        WithBounds(img, get_dynamic_green_bounds(img, sample, "none")),
        <<300, 300>>)

\* growth_analysis.py lines 23-56: the MetricSet of an image, when the
\* clustering inside preprocess_image gets sample and no step raises.
extract_metrics(img, sample) ==
    LET preprocessed == MaskOf(img, sample)
        dummy_weather == [clouds |-> 30, uvi |-> 6, description |-> {"clear"}]
    IN  [bounding_box_area |->
             calculate_bounding_box_area(preprocessed.mask).area,
         green_pixel_ratio |->
             calculate_green_pixel_count(preprocessed.mask).ratio,
         leaf_count |-> estimate_leaf_count(preprocessed.mask, 50, FALSE),
         color_health_index |->
             calculate_color_health_index(preprocessed.plant_only,
                                          preprocessed.mask).chi,
         sunlight_proxy |->
             estimate_sunlight_proxy(preprocessed.blurred, preprocessed.mask,
                                     dummy_weather, 70).score]

\* A green of the primary range, darker and less saturated than Lime.
Moss == [h |-> 48, s |-> 100, v |-> 100]

\* A leaf of colour c; its LAB a channel is below the threshold 120 of
\* preprocess.py line 62 when in_lab holds.
LeafOf(c, in_lab) ==
    Region(Leaf, [h |-> c.h, s |-> c.s, v |-> c.v,
                  a |-> IF in_lab THEN 100 ELSE 140],
           FALSE, in_lab, TRUE)

\* The pixel population of leaves on a background colour.
PopulationOf(leaves, bg) ==
    LET fg == [i \in 1..Len(leaves) |->
                  [n |-> leaves[i].area,
                   px |-> [h |-> leaves[i].px.h, s |-> leaves[i].px.s,
                           v |-> leaves[i].px.v]]]
    IN  fg \o <<[n |-> 300 * 300 - PopSize(fg), px |-> bg]>>

\* Images of up to MaxRegions leaves of different colours.
RepeatImages ==
    {[kind |-> "image", regions |-> leaves,
      pixels |-> PopulationOf(leaves, bg)] :
        leaves \in {f \in SeqsUpTo({LeafOf(c, l) :
                                      c \in {Lime, Moss, Olive, Red},
                                      l \in BOOLEAN}, MaxRegions) :
                       \A i, j \in 1..Len(f) :
                           f[i].px.h = f[j].px.h => i = j},
        bg \in {Dark, White}}

InitRepeat ==
    /\ pc = "r_call"
    /\ image \in RepeatImages
    /\ calls = <<>>
    /\ fault = "none"
    /\ ioOk = TRUE
    /\ pre = NoResult
    /\ loc = EmptyMap
    /\ exc = "none"
    /\ result = NoResult
    /\ out = NoResult
    /\ ScoreIdle
    /\ MetricIdle
    /\ EstimatorIdle
    /\ ThreadIdle
    /\ OtherIdle
    /\ metrics = <<>>
    /\ logFile = <<>>

\* One call of the decorated extract_metrics(image): np.random.choice draws
\* the sample, the MetricSet follows from it, the wrapper logs the call.
RepeatCall ==
    /\ pc = "r_call"
    /\ \E sample \in Samples(BrightPixels(image.pixels)) :
           calls' = Append(calls,
               [sample  |-> sample,
                bounds  |-> get_dynamic_green_bounds(image, sample, "none"),
                mask    |-> MaskOf(image, sample).mask,
                metrics |-> extract_metrics(image, sample)])
    /\ log_metric([operation |-> "image_preprocessing", success |-> TRUE])
    /\ pc' = IF Len(calls) = 0 THEN "r_call" ELSE "r_done"
    /\ UNCHANGED <<otherVars, scoreVars, metricVars, extractVars, estimatorVars,
                   threadVars>>

NextRepeat == RepeatCall

SpecRepeat == InitRepeat /\ [][NextRepeat]_vars

\* C14: two calls of extract_metrics on the same image hand the same pixel
\* sample to the clustering, estimate the same bounds, build the same mask
\* and return identical MetricSets.
C14_RepeatableExtract ==
    pc = "r_done" =>
        /\ calls[1].sample = calls[2].sample
        /\ calls[1].bounds = calls[2].bounds
        /\ calls[1].mask = calls[2].mask
        /\ calls[1].metrics = calls[2].metrics

(***************************************************************************)
(* Thread specification: concurrent calls of the decorated core functions  *)
(* on the one performance_monitor of performance_monitor.py line 116.      *)
(***************************************************************************)
\* The number of concurrent invocations.
MaxThreads == 2

Threads == 1..MaxThreads

\* What a thread runs: extract_metrics on an image whose bright pixels are
\* too few to be sampled, or compare_and_score_growth on two metric sets.
Jobs ==
    {[op |-> "extract_metrics", image |-> i] :
        i \in {x \in RepeatImages :
                  /\ Len(x.regions) = 1
                  /\ x.regions[1].in_lab
                  /\ x.pixels[Len(x.pixels)].px = Dark}}
    \cup
    {[op |-> "compare_and_score_growth",
      before |-> [k \in Keys |-> 1], after |-> [k \in Keys |-> a]] :
        a \in AfterVals}

\* lines 38-46: the metric the wrapper of thread t logs.
MetricOf(t) ==
    [operation |-> IF job[t].op = "extract_metrics"
                   THEN "image_preprocessing"
                   ELSE "growth_score_calculation",
     success |-> TRUE, call |-> t]

\* What the function of a job returns.
JobResult(j) ==
    IF j.op = "extract_metrics"
    THEN extract_metrics(j.image, BrightPixels(j.image.pixels))
    ELSE compare_and_score_growth(j.before, j.after)

InitThreads ==
    /\ pc = "threads"
    /\ job \in {f \in [Threads -> Jobs] :
                   \A t, u \in Threads : f[t] = f[u] => t = u}
    /\ tpc = [t \in Threads |-> "t_call"]
    /\ data = [t \in Threads |-> <<>>]
    /\ tres = [t \in Threads |-> NoResult]
    /\ metrics = <<>>
    /\ logFile \in {<<>>, <<[operation |-> "full_analysis_pipeline",
                            success |-> TRUE, call |-> 0]>>}
    /\ ScoreIdle
    /\ MetricIdle
    /\ ExtractIdle
    /\ EstimatorIdle
    /\ RepeatIdle
    /\ OtherIdle

\* wrapper, lines 20-30: the wrapped function runs and returns.
ThreadCall(t) ==
    /\ tpc[t] = "t_call"
    /\ tres' = [tres EXCEPT ![t] = JobResult(job[t])]
    /\ tpc' = [tpc EXCEPT ![t] = "t_append"]
    /\ UNCHANGED <<otherVars, pc, job, data, logVars, scoreVars, metricVars,
                   extractVars, estimatorVars, repeatVars>>

\* log_metric, line 57.
ThreadAppend(t) ==
    /\ tpc[t] = "t_append"
    /\ metrics' = Append(metrics, MetricOf(t))
    /\ tpc' = [tpc EXCEPT ![t] = "t_read"]
    /\ UNCHANGED <<otherVars, pc, job, data, tres, logFile, scoreVars, metricVars,
                   extractVars, estimatorVars, repeatVars>>

\* log_metric, lines 60-69: the file is read (a missing or empty file gives
\* []) and the metric is appended to the local list.
ThreadRead(t) ==
    /\ tpc[t] = "t_read"
    /\ data' = [data EXCEPT ![t] = Append(logFile, MetricOf(t))]
    /\ tpc' = [tpc EXCEPT ![t] = "t_open"]
    /\ UNCHANGED <<otherVars, pc, job, tres, logVars, scoreVars, metricVars,
                   extractVars, estimatorVars, repeatVars>>

\* log_metric, line 71: open(self.log_file, 'w') truncates the file.
ThreadOpen(t) ==
    /\ tpc[t] = "t_open"
    /\ logFile' = <<>>
    /\ tpc' = [tpc EXCEPT ![t] = "t_dump"]
    /\ UNCHANGED <<otherVars, pc, job, data, tres, metrics, scoreVars, metricVars,
                   extractVars, estimatorVars, repeatVars>>

\* log_metric, line 72, and the wrapper's return, line 51.
ThreadDump(t) ==
    /\ tpc[t] = "t_dump"
    /\ logFile' = data[t]
    /\ tpc' = [tpc EXCEPT ![t] = "t_done"]
    /\ UNCHANGED <<otherVars, pc, job, data, tres, metrics, scoreVars, metricVars,
                   extractVars, estimatorVars, repeatVars>>

NextThreads ==
    \E t \in Threads :
        \/ ThreadCall(t)
        \/ ThreadAppend(t)
        \/ ThreadRead(t)
        \/ ThreadOpen(t)
        \/ ThreadDump(t)

SpecThreads == InitThreads /\ [][NextThreads]_vars

\* C15: concurrent invocations on different inputs do not touch common
\* state, so every interleaving ends as a run of the invocations one after
\* the other ends: every call returned the value of its function, and the
\* log file and the metric list both hold one entry per call, the log file
\* after the entries it held before.
C15_IndependentInvocations ==
    (\A t \in Threads : tpc[t] = "t_done") =>
        /\ \A t \in Threads : tres[t] = JobResult(job[t])
        /\ Len(metrics) = MaxThreads
        /\ \A t \in Threads :
               \E i \in 1..Len(metrics) : metrics[i] = MetricOf(t)
        /\ \E n \in 0..1 :
               /\ Len(logFile) = n + MaxThreads
               /\ \A i \in 1..n : logFile[i].call = 0
               /\ \A t \in Threads :
                      \E i \in n + 1..Len(logFile) : logFile[i] = MetricOf(t)

\* C27: for any interleaving of log_metric calls made by concurrent
\* decorated invocations, once all of them have completed the log file
\* contains every metric that was logged (none lost or overwritten) and
\* holds the same entries as the in-memory metrics list; entries the file
\* held before the process started are left aside.
C27_NoMetricLost ==
    (\A t \in Threads : tpc[t] = "t_done") =>
        /\ \A i \in 1..Len(metrics) :
               \E k \in 1..Len(logFile) : logFile[k] = metrics[i]
        /\ \A k \in 1..Len(logFile) :
               logFile[k].call # 0 =>
                   \E i \in 1..Len(metrics) : metrics[i] = logFile[k]
        /\ \A t \in Threads :
               Cardinality({k \in 1..Len(logFile) : logFile[k] = MetricOf(t)})
                   = 1

(***************************************************************************)
(* Further claims on the scorer and the handler, checked under SpecScore.  *)
(***************************************************************************)
\* C16: a call of compare_and_score_growth changes nothing besides
\* producing its return value: the metric list of the performance monitor,
\* the performance log file and both input metric sets are after the call
\* what they were before it.
C16_ScorerIsPure ==
    [][(pc = "start" /\ pc' = "scored") =>
          /\ metrics' = metrics
          /\ logFile' = logFile
          /\ before_metrics' = before_metrics
          /\ after_metrics' = after_metrics]_vars

\* C18: the suggestion tier follows the final score s: excellent iff
\* s >= 80, good iff 60 <= s < 80, moderate iff 40 <= s < 60, limited iff
\* s < 40; so every score has exactly one tier and 80, 60 and 40 fall in the
\* upper tier.
C18_SuggestionTiers ==
    pc = "analyzed" =>
        LET s == resp.final_score
        IN  /\ 0 <= s /\ s <= 100 * Q
            /\ resp.suggestion
                   \in {"excellent", "good", "moderate", "limited"}
            /\ resp.suggestion = "excellent" <=> s >= 80 * Q
            /\ resp.suggestion = "good" <=> (60 * Q <= s /\ s < 80 * Q)
            /\ resp.suggestion = "moderate" <=> (40 * Q <= s /\ s < 60 * Q)
            /\ resp.suggestion = "limited" <=> s < 40 * Q

\* A response whose final score is exactly 80.
C18_Witness ==
    /\ pc = "analyzed"
    /\ resp.final_score = 80 * Q
    /\ resp.suggestion = "excellent"

(***************************************************************************)
(* Further claim on preprocess_image, checked under SpecExtract.           *)
(***************************************************************************)
\* C17: preprocess_image does not raise on a missing image (None) nor on an
\* empty image (zero pixels): it returns original, blurred, mask and
\* plant_only, all of them all-zero.
C17_DegenerateInputAllZero ==
    (/\ pc \notin {"w_enter", "e_preprocess"}
     /\ fault # "preprocess"
     /\ (IsNone(image) \/ image.kind = "empty")) =>
        /\ exc # "preprocess"
        /\ DOMAIN pre = {"kind", "original", "blurred", "mask", "plant_only"}
        /\ pre.original.regions = <<>>
        /\ pre.blurred.regions = <<>>
        /\ MaskSumZero(pre.mask)
        /\ pre.plant_only.regions = <<>>

(***************************************************************************)
(* Scenario specification: compare_and_score_growth on the before set      *)
(* {bounding_box_area 40000, green_pixel_ratio 0.5, leaf_count 5,          *)
(* color_health_index 0.6, sunlight_proxy 0.5} and on after sets that      *)
(* differ from it in green_pixel_ratio and leaf_count.  Metric values are  *)
(* kept in tenths.                                                         *)
(***************************************************************************)
\* The after sets range over green_pixel_ratio 0.0 .. ScenarioSteps / 10
\* and leaf_count 0 .. ScenarioSteps.
ScenarioSteps == 10

ScenarioBefore ==
    [bounding_box_area |-> 40000 * 10, green_pixel_ratio |-> 5,
     leaf_count |-> 5 * 10, color_health_index |-> 6, sunlight_proxy |-> 5]

ScenarioAfter ==
    [ScenarioBefore EXCEPT !.green_pixel_ratio = 6, !.leaf_count = 6 * 10]

InitScenario ==
    /\ pc = "start"
    /\ before_metrics = ScenarioBefore
    /\ after_metrics \in
           {[ScenarioBefore EXCEPT !.green_pixel_ratio = g,
                                   !.leaf_count = l * 10] :
               g \in 0..ScenarioSteps, l \in 0..ScenarioSteps}
    /\ ret = NoResult
    /\ resp = NoResult
    /\ metrics = <<>>
    /\ logFile = <<>>
    /\ MetricIdle
    /\ ExtractIdle
    /\ EstimatorIdle
    /\ RepeatIdle
    /\ ThreadIdle
    /\ OtherIdle

SpecScenario == InitScenario /\ [][NextScore]_vars

\* C19: on the scenario's before set and the after set with
\* green_pixel_ratio 0.6 and leaf_count 6, compare_and_score_growth reports
\* deltas +20 for green_pixel_ratio and leaf_count, 0 for the other three
\* metrics, and a score strictly between 50 and 60.
C19_ScenarioTwentyPercent ==
    (Scored /\ after_metrics = ScenarioAfter) =>
        /\ ret.deltas = [k \in Keys |->
                            IF k \in {"green_pixel_ratio", "leaf_count"}
                            THEN 20 * Q ELSE 0]
        /\ 50 * Q < ret.score
        /\ ret.score < 60 * Q

\* The scenario was scored: 50 + 50 * (0.25 * 0.2 + 0.20 * 0.2) = 54.5.
C19_Witness ==
    /\ pc = "scored"
    /\ before_metrics = ScenarioBefore
    /\ after_metrics = ScenarioAfter
    /\ 2 * ret.score = 109 * Q

(***************************************************************************)
(* Route specification: a sequence of requests to /upload, /analyze,       *)
(* /metrics/<id> and /history of routes/analysis_routes.py.                *)
(***************************************************************************)
\* The most requests of one run.
MaxRequests == 3

\* The JSON bodies of POST requests.  A complete body carries both images;
\* the images of an /analyze request are given by the MetricSets that
\* extract_metrics computes from them, or cannot be decoded at all.
UploadBodies ==
    {[kind |-> k] : k \in {"complete", "incomplete", "malformed"}}

AnalyzeBodies ==
    {[kind |-> k] : k \in {"incomplete", "undecodable"}}
    \cup {[kind |-> "complete",
           before |-> [k \in Keys |-> 1], after |-> [k \in Keys |-> a]] :
              a \in AfterVals}

\* Which writes of performance_logs.json succeed during one /analyze
\* request: those of the two extract_metrics calls and that of the view's
\* own wrapper.  The file system can fail from one write to the next.
LogOutcomes ==
    {<<TRUE, TRUE, TRUE>>, <<FALSE, TRUE, TRUE>>, <<TRUE, FALSE, TRUE>>,
     <<TRUE, TRUE, FALSE>>}

InitRoutes ==
    /\ pc = "serving"
    /\ analysis_results = EmptyMap
    /\ uploaded_images = EmptyMap
    /\ issued = 0
    /\ responses = <<>>
    /\ metrics = <<>>
    /\ logFile = <<>>
    /\ ScoreIdle
    /\ MetricIdle
    /\ ExtractIdle
    /\ EstimatorIdle
    /\ RepeatIdle
    /\ ThreadIdle
    /\ MarginIdle
    /\ PreprocIdle
    /\ WrapperIdle

\* The clock of datetime.utcnow(): the number of the request.
Now == Len(responses) + 1

Respond(route, status, body) ==
    responses' = Append(responses,
                        [route |-> route, status |-> status, body |-> body])

\* upload_images, lines 38-65.  request.get_json() raises on a malformed
\* body, which the except clause answers with 500.
Upload ==
    /\ Len(responses) < MaxRequests
    /\ \E body \in UploadBodies :
         CASE body.kind = "malformed" ->
                /\ Respond("upload", 500, [error |-> "Upload failed"])
                /\ UNCHANGED <<uploaded_images, issued>>
           [] body.kind = "incomplete" ->
                /\ Respond("upload", 400, [error |-> "required"])
                /\ UNCHANGED <<uploaded_images, issued>>
           [] body.kind = "complete" ->
                /\ issued' = issued + 1
                /\ uploaded_images' =
                      uploaded_images
                      @@ (issued + 1 :> [species |-> "unknown",
                                         timestamp |-> Now])
                /\ Respond("upload", 200, [session_id |-> issued + 1])
    /\ UNCHANGED <<pc, analysis_results, scoreVars, logVars, metricVars,
                   extractVars, estimatorVars, repeatVars, threadVars,
                   marginVars, preprocVars, wrapperVars>>

\* The metrics that the writes w (a sequence of [metric, ok]) leave in the
\* list and in the file: log_metric extends the list, then the file when
\* it can be written.
LogWrites(w) ==
    /\ metrics' = metrics \o [i \in 1..Len(w) |-> w[i].metric]
    /\ logFile' = logFile
                  \o [i \in 1..Len(SelectSeq(w, LAMBDA x : x.ok)) |->
                         SelectSeq(w, LAMBDA x : x.ok)[i].metric]

ViewMetric ==
    [operation |-> "full_analysis_pipeline", success |-> TRUE]

ExtractMetric == [operation |-> "image_preprocessing", success |-> TRUE]

\* analyze_growth behind its timing wrapper, lines 67-194 and
\* performance_monitor.py lines 19-51.  The view catches every Exception
\* and returns; the wrapper then logs outside any try, and an OSError of
\* that write reaches Flask, which answers 500.
Analyze ==
    /\ Len(responses) < MaxRequests
    /\ \E body \in AnalyzeBodies, io \in LogOutcomes :
         CASE body.kind = "incomplete" ->
                /\ LogWrites(<<[metric |-> ViewMetric, ok |-> io[3]]>>)
                /\ IF io[3]
                   THEN Respond("analyze", 400, [error |-> "required"])
                   ELSE Respond("analyze", 500, [error |-> "Internal"])
                /\ UNCHANGED <<analysis_results, issued>>
           [] body.kind = "undecodable" ->
                /\ LogWrites(<<[metric |-> ViewMetric, ok |-> io[3]]>>)
                /\ Respond("analyze", 500,
                           IF io[3] THEN [error |-> "Analysis failed"]
                           ELSE [error |-> "Internal"])
                /\ UNCHANGED <<analysis_results, issued>>
           [] body.kind = "complete" /\ ~io[1] ->
                \* line 82: the wrapper of extract_metrics raises
                /\ LogWrites(<<[metric |-> ExtractMetric, ok |-> FALSE],
                               [metric |-> ViewMetric, ok |-> io[3]]>>)
                /\ Respond("analyze", 500, [error |-> "Analysis failed"])
                /\ UNCHANGED <<analysis_results, issued>>
           [] body.kind = "complete" /\ io[1] /\ ~io[2] ->
                \* line 83
                /\ LogWrites(<<[metric |-> ExtractMetric, ok |-> TRUE],
                               [metric |-> ExtractMetric, ok |-> FALSE],
                               [metric |-> ViewMetric, ok |-> io[3]]>>)
                /\ Respond("analyze", 500, [error |-> "Analysis failed"])
                /\ UNCHANGED <<analysis_results, issued>>
           [] body.kind = "complete" /\ io[1] /\ io[2] ->
                LET scoring == analyze_growth_scoring(body.before, body.after)
                    analysis_id == issued + 1
                    res == [analysis_id |-> analysis_id,
                            growth_score |-> scoring.growth_score,
                            delta_metrics |-> scoring.delta_metrics,
                            suggestion |-> scoring.suggestion,
                            timestamp |-> Now]
                IN  /\ issued' = analysis_id
                    \* line 189
                    /\ analysis_results' =
                          analysis_results @@ (analysis_id :> res)
                    /\ LogWrites(<<[metric |-> ExtractMetric, ok |-> TRUE],
                                   [metric |-> ExtractMetric, ok |-> TRUE],
                                   [metric |-> ViewMetric, ok |-> io[3]]>>)
                    \* line 191, then performance_monitor.py lines 48-51
                    /\ IF io[3] THEN Respond("analyze", 200, res)
                       ELSE Respond("analyze", 500, [error |-> "Internal"])
    /\ UNCHANGED <<pc, uploaded_images, scoreVars, metricVars, extractVars,
                   estimatorVars, repeatVars, threadVars, marginVars,
                   preprocVars, wrapperVars>>

\* get_metrics, lines 196-202.
GetMetrics ==
    /\ Len(responses) < MaxRequests
    /\ \E id \in 1..MaxRequests :
         IF id \in DOMAIN analysis_results
         THEN Respond("metrics", 200, analysis_results[id])
         ELSE Respond("metrics", 404, [error |-> "Analysis not found",
                                       analysis_id |-> id])
    /\ UNCHANGED <<pc, analysis_results, uploaded_images, issued, scoreVars,
                   logVars, metricVars, extractVars, estimatorVars,
                   repeatVars, threadVars, marginVars, preprocVars,
                   wrapperVars>>

\* The values of store d with timestamps below t, newest first.
RECURSIVE NewestFirst(_, _)
NewestFirst(d, t) ==
    IF t = 0 THEN <<>>
    ELSE LET at == {id \in DOMAIN d : d[id].timestamp = t}
         IN  (IF at = {} THEN <<>> ELSE <<d[CHOOSE id \in at : TRUE]>>)
                 \o NewestFirst(d, t - 1)

\* get_history, lines 204-210.
GetHistory ==
    /\ Len(responses) < MaxRequests
    /\ Respond("history", 200,
               [analyses |-> NewestFirst(analysis_results, Len(responses))])
    /\ UNCHANGED <<pc, analysis_results, uploaded_images, issued, scoreVars,
                   logVars, metricVars, extractVars, estimatorVars,
                   repeatVars, threadVars, marginVars, preprocVars,
                   wrapperVars>>

NextRoutes ==
    \/ Upload
    \/ Analyze
    \/ GetMetrics
    \/ GetHistory

SpecRoutes == InitRoutes /\ [][NextRoutes]_vars

\* The successful /analyze responses among the first n responses.
C29_Returned(n) ==
    {i \in 1..n : responses[i].route = "analyze" /\ responses[i].status = 200}

\* C29: the analysis_results store is append-only across any sequence of
\* /upload, /analyze, /metrics and /history requests.  Every analysis_id
\* returned by a successful /analyze stays mapped to exactly the result
\* returned; /metrics/<id> answers 200 with that result exactly when the
\* id was returned by an earlier successful /analyze, and 404 otherwise; a
\* request answered 400, 404 or 500 adds no entry and changes none, so the
\* store holds the returned results and nothing else.
C29_StoreAppendOnly ==
    /\ \A i \in C29_Returned(Len(responses)) :
           /\ responses[i].body.analysis_id \in DOMAIN analysis_results
           /\ analysis_results[responses[i].body.analysis_id]
                  = responses[i].body
    /\ \A id \in DOMAIN analysis_results :
           \E i \in C29_Returned(Len(responses)) :
               responses[i].body.analysis_id = id
    /\ \A j \in 1..Len(responses) :
           responses[j].route = "metrics" =>
               /\ responses[j].status \in {200, 404}
               /\ responses[j].status = 200 <=>
                      \E i \in C29_Returned(j - 1) :
                          responses[i].body = responses[j].body

(***************************************************************************)
(* Boundary specification: the scorer and the handler on metric sets whose *)
(* final score lies next to the tier boundary 80.                          *)
(***************************************************************************)
\* Metric values in the units in which they are whole numbers.
BoundaryBefore ==
    [bounding_box_area |-> 1, green_pixel_ratio |-> 1, leaf_count |-> 2,
     color_health_index |-> 1, sunlight_proxy |-> 200]

\* After sets: the first four metrics unchanged or grown by one unit, the
\* sunlight proxy 0.5 percent lower, unchanged or 0.5 percent higher.
BoundaryAfters ==
    {[bounding_box_area |-> x, green_pixel_ratio |-> g, leaf_count |-> l,
      color_health_index |-> c, sunlight_proxy |-> s] :
        x \in {1, 2}, g \in {1, 2}, l \in {2, 3}, c \in {1, 2},
        s \in {199, 200, 201}}

InitBoundary ==
    /\ pc = "start"
    /\ before_metrics = BoundaryBefore
    /\ after_metrics \in BoundaryAfters
    /\ ret = NoResult
    /\ resp = NoResult
    /\ metrics = <<>>
    /\ logFile = <<>>
    /\ MetricIdle
    /\ ExtractIdle
    /\ EstimatorIdle
    /\ RepeatIdle
    /\ ThreadIdle
    /\ OtherIdle

SpecBoundary == InitBoundary /\ [][NextScore]_vars

\* C30: in every successful /analyze response the suggestion tier agrees
\* with the growth_score field, the final score rounded to one decimal:
\* growth_score >= 80 exactly for excellent, 60 <= growth_score < 80 for
\* good, 40 <= growth_score < 60 for moderate and growth_score < 40 for
\* limited.  growth_score is kept in tenths.
C30_TierMatchesGrowthScore ==
    pc = "analyzed" =>
        /\ resp.suggestion = "excellent" <=> resp.growth_score >= 800
        /\ resp.suggestion = "good" <=>
               (600 <= resp.growth_score /\ resp.growth_score < 800)
        /\ resp.suggestion = "moderate" <=>
               (400 <= resp.growth_score /\ resp.growth_score < 600)
        /\ resp.suggestion = "limited" <=> resp.growth_score < 400

====
